---- MODULE Spec2Model ----
(***************************************************************************)
(* Recurrence expansion, forecast materialization and budget lifecycle of  *)
(* bud (src/bud/services/{budgets,recurrences,forecasts}.py and the CLI    *)
(* handlers in src/bud/commands/{budgets,forecasts}.py).                   *)
(*                                                                         *)
(* The record store is modelled as four tables (budgets, recurrences,      *)
(* forecasts, categories), each a function from row id to row.  Every CLI  *)
(* command is one action; a command is a sequence of service calls, each   *)
(* of which commits on its own (db.commit() inside every service), so a    *)
(* command that raises half way leaves the rows committed so far.          *)
(*                                                                         *)
(* Month tokens "YYYY-MM" are modelled as the sequence of their           *)
(* characters (digits and the separator); token comparison is the          *)
(* lexicographic comparison the code performs on strings, and arithmetic   *)
(* parses the token into integers and formats the result back, as the      *)
(* code does.                                                              *)
(*                                                                         *)
(* Row ids stand for UUIDs: a new row takes the smallest id that no row of *)
(* its table carries.  No reference to a deleted row survives a delete     *)
(* (forecasts.budget_id is ON DELETE CASCADE), so reusing an id cannot     *)
(* alias a stale reference.                                                *)
(*                                                                         *)
(* Reports (src/bud/services/reports.py) read two more tables, accounts    *)
(* and transactions, and the clock (today); they are a pure function of    *)
(* the store, checked under a specification of its own.  pc holds the      *)
(* positions of two processes that run create_budget concurrently.         *)
(***************************************************************************)
EXTENDS Integers, Sequences, FiniteSets, TLC

VARIABLES budgets, recurrences, forecasts, categories, accounts, transactions,
          today, pc, projects, remote, local, last, commands

vars == <<budgets, recurrences, forecasts, categories, accounts, transactions,
          today, pc, projects, remote, local, last, commands>>

\* Optional values (Python None, a null column): None, or Some(x) for a value x.
None == << >>

Some(x) == <<x>>

IsSome(o) == o # None

Get(o) == o[1]

\* The single project all commands run against (the configured default project).
Project == "p1"

(***************************************************************************)
(* Bounds                                                                  *)
(***************************************************************************)
MaxBudgets == 3
MaxRecurrences == 2
MaxForecasts == 4
MaxInstallments == 2
MaxCommands == 3

(***************************************************************************)
(* Month tokens                                                            *)
(***************************************************************************)
\* A token is the sequence of its characters: a decimal digit is its value and
\* the character "-" is Dash, which as in ASCII orders below every digit.
Dash == -1

\* the decimal digits of a natural number, most significant first
RECURSIVE Digits(_)
Digits(n) == IF n < 10 THEN <<n>> ELSE Digits(n \div 10) \o <<n % 10>>

\* "0" * missing ++ text: zero padding on the left up to a width
RECURSIVE ZeroPad(_, _)
ZeroPad(text, width) ==
    IF Len(text) >= width THEN text ELSE ZeroPad(<<0>> \o text, width)

\* f"{year:04d}": four digits for a year from 0 to 9999, every digit of a
\* longer year, and a width of four that counts the sign of a negative year
YearText(year) ==
    IF year \in 0..9999
    THEN << year \div 1000, (year \div 100) % 10, (year \div 10) % 10, year % 10 >>
    ELSE IF year > 9999 THEN Digits(year)
    ELSE <<Dash>> \o ZeroPad(Digits(0 - year), 3)

\* f"{year:04d}-{month:02d}", the month being one of 1..12
FormatMonth(year, month) ==
    YearText(year) \o << Dash, month \div 10, month % 10 >>

\* int(text) of a run of digits
RECURSIVE DigitsValue(_)
DigitsValue(text) ==
    IF text = << >> THEN 0
    ELSE DigitsValue(SubSeq(text, 1, Len(text) - 1)) * 10 + text[Len(text)]

\* year, month = map(int, token.split("-")) unpacks exactly two numbers: a token
\* that starts with "-" splits into three parts and raises ValueError
Parses(tok) == tok[1] # Dash

ParseYear(tok) ==
    IF Len(tok) = 7
    THEN tok[1] * 1000 + tok[2] * 100 + tok[3] * 10 + tok[4]
    ELSE DigitsValue(SubSeq(tok, 1, Len(tok) - 3))

ParseMonth(tok) == tok[Len(tok) - 1] * 10 + tok[Len(tok)]

\* Python / SQLite comparison of two strings: lexicographic, a proper prefix
\* ordering before the longer string
RECURSIVE StrLessFrom(_, _, _)
StrLessFrom(a, b, i) ==
    IF i > Len(a) THEN i <= Len(b)
    ELSE IF i > Len(b) THEN FALSE
    ELSE IF a[i] # b[i] THEN a[i] < b[i]
    ELSE StrLessFrom(a, b, i + 1)

StrLess(a, b) == StrLessFrom(a, b, 1)

StrLE(a, b) == a = b \/ StrLess(a, b)

\* the two while loops of _month_offset
RECURSIVE CarryMonths(_, _)
CarryMonths(year, month) ==
    IF month > 12 THEN CarryMonths(year + 1, month - 12)
    ELSE IF month < 1 THEN CarryMonths(year - 1, month + 12)
    ELSE <<year, month>>

\* a variant that wraps the month and leaves the year alone
OffsetWithoutCarry(start, n) ==
    FormatMonth(ParseYear(start), ((ParseMonth(start) + n - 1) % 12) + 1)

_month_offset(start, n) ==
    LET ym == CarryMonths(ParseYear(start), ParseMonth(start) + n)
    IN  FormatMonth(ym[1], ym[2])

_months_between(start, end) ==
    (ParseYear(end) - ParseYear(start)) * 12 + (ParseMonth(end) - ParseMonth(start))

\* The months the model's commands name: a window that crosses a year boundary.
BaseMonth == FormatMonth(2025, 11)

Month(k) == _month_offset(BaseMonth, k)

\* datetime.date(year, month, day).  Dates are only compared, and the number
\* year * 10000 + month * 100 + day orders them as the calendar does.
Date(year, month, day) == year * 10000 + month * 100 + day

\* calendar.isleap
isleap(year) == year % 4 = 0 /\ (year % 100 # 0 \/ year % 400 = 0)

\* calendar.monthrange(year, month)[1]: the number of days of the month
DaysInMonth(year, month) ==
    IF month = 2 THEN (IF isleap(year) THEN 29 ELSE 28)
    ELSE IF month \in {4, 6, 9, 11} THEN 30
    ELSE 31

\* services/budgets.py _parse_month_dates: first and last day of the month
_parse_month_dates(name) ==
    [start |-> Date(ParseYear(name), ParseMonth(name), 1),
     end |-> Date(ParseYear(name), ParseMonth(name),
                  DaysInMonth(ParseYear(name), ParseMonth(name)))]

\* The Budget row create_budget and update_budget store for a name
BudgetRow(name, project_id) ==
    [name |-> name, start_date |-> _parse_month_dates(name).start,
     end_date |-> _parse_month_dates(name).end, project_id |-> project_id]

(***************************************************************************)
(* The record store                                                        *)
(***************************************************************************)
\* The four tables as one value, so that service functions can be composed.
Database == [budgets |-> budgets, recurrences |-> recurrences,
             forecasts |-> forecasts, categories |-> categories]

\* uuid.uuid4 as column default: an id no row of the table carries
FreshId(table) ==
    CHOOSE i \in 1..(Cardinality(DOMAIN table) + 1) :
        /\ i \notin DOMAIN table
        /\ \A j \in 1..(i - 1) : j \in DOMAIN table

\* db.add(row) followed by db.commit()
Insert(table, id, row) ==
    [i \in DOMAIN table \cup {id} |-> IF i = id THEN row ELSE table[i]]

\* db.delete(row) followed by db.commit()
Remove(table, ids) == [i \in DOMAIN table \ ids |-> table[i]]

(***************************************************************************)
(* services/recurrences.py                                                 *)
(***************************************************************************)
create_recurrence(db, data) ==
    LET id == FreshId(db.recurrences)
    IN  [db |-> [db EXCEPT !.recurrences = Insert(@, id, data)], id |-> id]

\* `if r.installments:` is false for None and for 0
Truthy(n) == IsSome(n) /\ Get(n) # 0

HasInstallments(r) == Truthy(r.installments)

\* Variant: the last installment month is offset(start, installments)
AppliesAfterStartOneMore(r, month) ==
    IF HasInstallments(r)
    THEN StrLE(month, _month_offset(r.start, Get(r.installments)))
    ELSE r.end = None \/ StrLE(month, Get(r.end))

\* the Python filter applied to each row the query returned
AppliesAfterStart(r, month) ==
    IF HasInstallments(r)
    THEN StrLE(month, _month_offset(r.start, Get(r.installments) - 1))
    ELSE r.end = None \/ StrLE(month, Get(r.end))

\* Variant: start < month
StartedByStrict(r, project_id, month) ==
    r.project_id = project_id /\ StrLess(r.start, month)

\* the WHERE clause of the query: project_id matches and start <= month
StartedBy(r, project_id, month) ==
    r.project_id = project_id /\ StrLE(r.start, month)

get_recurrences_for_month(db, project_id, month) ==
    { id \in DOMAIN db.recurrences :
        /\ StartedBy(db.recurrences[id], project_id, month)
        /\ AppliesAfterStart(db.recurrences[id], month) }

get_installment_number(recurrence, month) ==
    _months_between(recurrence.start, month) + 1

(***************************************************************************)
(* services/forecasts.py                                                   *)
(***************************************************************************)
\* ForecastCreate with the defaults of the fields a caller leaves out
ForecastCreate(description, value, budget_id, category_id, tags, recurrence_id, installment) ==
    [description |-> description, value |-> value, budget_id |-> budget_id,
     category_id |-> category_id, tags |-> tags,
     recurrence_id |-> recurrence_id, installment |-> installment]

create_forecast(db, data) ==
    LET id == FreshId(db.forecasts)
    IN  [db |-> [db EXCEPT !.forecasts = Insert(@, id, data)], id |-> id]

forecast_exists_for_recurrence(db, recurrence_id, budget_id) ==
    \E f \in DOMAIN db.forecasts :
        /\ db.forecasts[f].recurrence_id = Some(recurrence_id)
        /\ db.forecasts[f].budget_id = budget_id

list_forecasts(db, budget_id) ==
    { f \in DOMAIN db.forecasts : db.forecasts[f].budget_id = budget_id }

(***************************************************************************)
(* services/budgets.py                                                     *)
(***************************************************************************)
list_budgets(db, project_id) ==
    { b \in DOMAIN db.budgets : db.budgets[b].project_id = project_id }

\* the rows the query of get_budget_by_name selects
BudgetsNamed(db, project_id, name) ==
    { b \in list_budgets(db, project_id) : db.budgets[b].name = name }

\* the forecasts linked to a recurrence
LinkedTo(db, rec) ==
    { f \in DOMAIN db.forecasts : db.forecasts[f].recurrence_id = Some(rec) }

\* The attribute access `rec.original_forecast` (budgets.py line 75).  The
\* Recurrence model (models/recurrence.py) declares no attribute of that
\* name and create_recurrence stores none, so the access raises
\* AttributeError: the value below stands for that exception.
AttributeError == [raised |-> "AttributeError"]

\* Variant: the attribute resolves to the forecast the recurrence was made
\* from, once that forecast is linked
OriginalForecastResolved(db, rec) ==
    IF LinkedTo(db, rec) = {} THEN AttributeError
    ELSE db.forecasts[CHOOSE f \in LinkedTo(db, rec) :
                          \A g \in LinkedTo(db, rec) : f <= g]

original_forecast(db, rec) == AttributeError

\* The loop body after the existence check: rec.original_forecast is read
\* and the forecast built from it is inserted.
MaterializeForecast(db, rec, budget_id) ==
    LET orig == original_forecast(db, rec)
        r == db.recurrences[rec]
        installment_num ==
            IF HasInstallments(r)
            THEN Some(get_installment_number(r, db.budgets[budget_id].name))
            ELSE None
    IN  IF orig = AttributeError
        THEN [db |-> db, raised |-> TRUE]
        ELSE [db |-> create_forecast(db,
                         ForecastCreate(orig.description, orig.value, budget_id,
                                        orig.category_id, orig.tags,
                                        Some(rec), installment_num)).db,
              raised |-> FALSE]

\* Variant: no existence check, and the row is built from the template columns
PopulateOneUnchecked(db, rec, budget_id) ==
    LET r == db.recurrences[rec]
    IN  [db |-> create_forecast(db,
                    ForecastCreate(r.base_description, r.value, budget_id,
                                   r.category_id, r.tags, Some(rec), None)).db,
         raised |-> FALSE]

\* One iteration of the loop of _populate_recurrent_forecasts.
PopulateOne(db, rec, budget_id) ==
    IF forecast_exists_for_recurrence(db, rec, budget_id)
    THEN [db |-> db, raised |-> FALSE]
    ELSE MaterializeForecast(db, rec, budget_id)

\* The loop over the applicable recurrences; it stops at the first exception.
RECURSIVE PopulateLoop(_, _, _)

\* after one iteration: the exception propagates, or the loop goes on
PopulateRest(step, recs, budget_id) ==
    IF step.raised THEN step ELSE PopulateLoop(step.db, recs, budget_id)

PopulateLoop(db, recs, budget_id) ==
    IF recs = {} THEN [db |-> db, raised |-> FALSE]
    ELSE LET rec == CHOOSE r \in recs : \A q \in recs : r <= q
         IN  PopulateRest(PopulateOne(db, rec, budget_id), recs \ {rec}, budget_id)

_populate_recurrent_forecasts(db, budget_id) ==
    PopulateLoop(db,
                 get_recurrences_for_month(db, db.budgets[budget_id].project_id,
                                           db.budgets[budget_id].name),
                 budget_id)

\* The Budget row is committed before materialization runs, so it stays
\* when materialization raises.
BudgetPopulated(pop, id) == [db |-> pop.db, id |-> id, raised |-> pop.raised]

create_budget(db, name, project_id) ==
    LET id == FreshId(db.budgets)
        db1 == [db EXCEPT !.budgets = Insert(@, id, BudgetRow(name, project_id))]
    IN  BudgetPopulated(_populate_recurrent_forecasts(db1, id), id)

\* update_budget: a name, when one is given, replaces the name and the dates
\* derived from it (`if data.name:`)
update_budget(db, budget_id, name) ==
    IF IsSome(name)
    THEN [db EXCEPT !.budgets[budget_id] =
                        BudgetRow(Get(name), db.budgets[budget_id].project_id)]
    ELSE db

\* db.delete(budget): the forecasts of the budget go with it
\* (relationship cascade="all, delete-orphan", budget_id ON DELETE CASCADE)
delete_budget(db, budget_id) ==
    [db EXCEPT !.budgets = Remove(@, {budget_id}),
               !.forecasts = Remove(@, list_forecasts(db, budget_id))]

(***************************************************************************)
(* Category lookup and creation by name, as the CLI handlers call them     *)
(***************************************************************************)
\* resolve_category_id for a category given by name: the id of the category
\* of that name, if there is one (names are unique, uq_categories_name_user).
\* A category is identified with its name.
resolve_category_id(db, identifier) ==
    IF identifier \in db.categories THEN Some(identifier) ELSE None

create_category(db, name) == [db EXCEPT !.categories = @ \cup {name}]

(***************************************************************************)
(* commands/forecasts.py: forecast create                                  *)
(***************************************************************************)
\* A budget argument is a budget UUID or a month name; without an argument
\* the configured active month is used, which is again a month name.
\* `b = await budget_service.create_budget(...)`, then `return b.id`
AutoCreated(b) == [db |-> b.db, id |-> Some(b.id), raised |-> b.raised]

_resolve_or_create_budget_id(db, budget_uuid, month) ==
    IF IsSome(budget_uuid)
    THEN [db |-> db, id |-> budget_uuid, raised |-> FALSE]
    ELSE LET named == BudgetsNamed(db, Project, month)
         IN  IF Cardinality(named) > 1
             THEN \* scalar_one_or_none raises MultipleResultsFound
                  [db |-> db, id |-> None, raised |-> TRUE]
             ELSE IF named # {}
             THEN [db |-> db, id |-> Some(CHOOSE b \in named : TRUE), raised |-> FALSE]
             ELSE AutoCreated(create_budget(db, month, Project))

\* Variant: the range starts at first_inst, the installment already written
FirstRemainingInstallmentFromOrigin(first_inst) == first_inst

\* range(first_inst + 1, installments + 1) starts here
FirstRemainingInstallment(first_inst) == first_inst + 1

\* The loop "Create remaining installments", from installment i on.
RECURSIVE InstallmentLoop(_, _, _, _, _, _)

\* the forecast of installment i for budget budget_id
InstallmentRow(budget_id, i, rec, req) ==
    ForecastCreate(req.description, req.value, budget_id, req.cat, req.tags,
                   Some(rec), Some(i))

\* The iteration for a month without budget, once create_budget has returned
\* target_budget or raised.
InstallmentInNewBudget(target_budget, i, first_inst, origin, rec, req) ==
    IF target_budget.raised THEN [db |-> target_budget.db, raised |-> TRUE]
    ELSE IF forecast_exists_for_recurrence(target_budget.db, rec, target_budget.id)
    THEN InstallmentLoop(target_budget.db, i + 1, first_inst, origin, rec, req)
    ELSE InstallmentLoop(
             create_forecast(target_budget.db,
                             InstallmentRow(target_budget.id, i, rec, req)).db,
             i + 1, first_inst, origin, rec, req)

InstallmentLoop(db, i, first_inst, origin, rec, req) ==
    IF i > Get(req.installments) THEN [db |-> db, raised |-> FALSE]
    ELSE
      LET month == _month_offset(origin.name, i - first_inst)
          named == BudgetsNamed(db, origin.project_id, month)
      IN  IF Cardinality(named) > 1
          THEN [db |-> db, raised |-> TRUE]
          ELSE IF named = {}
          THEN InstallmentInNewBudget(create_budget(db, month, origin.project_id),
                                      i, first_inst, origin, rec, req)
          ELSE InstallmentLoop(
                   create_forecast(db, InstallmentRow(CHOOSE b \in named : TRUE,
                                                      i, rec, req)).db,
                   i + 1, first_inst, origin, rec, req)

\* how the branch ends: the loop ran through, or an exception left it
InstallmentsOutcome(loop, rec) ==
    [db |-> loop.db, rec |-> Some(rec),
     outcome |-> IF loop.raised THEN "raised" ELSE "created"]

\* The branch `if is_recurrent and installments`
CreateInstallmentForecasts(db, bid, req) ==
    LET first_inst == IF Truthy(req.current_installment)
                      THEN Get(req.current_installment) ELSE 1
        origin == db.budgets[bid]
        first_forecast == create_forecast(db,
            ForecastCreate(req.description, req.value, bid, req.cat, req.tags,
                           None, Some(first_inst)))
        theoretical_start == _month_offset(origin.name, 0 - (first_inst - 1))
        rec == create_recurrence(first_forecast.db,
            [start |-> theoretical_start, end |-> None,
             installments |-> req.installments,
             base_description |-> req.description, value |-> req.value,
             category_id |-> req.cat, tags |-> req.tags,
             project_id |-> origin.project_id])
        linked == [rec.db EXCEPT !.forecasts[first_forecast.id].recurrence_id = Some(rec.id)]
    IN  InstallmentsOutcome(InstallmentLoop(linked, FirstRemainingInstallment(first_inst),
                                            first_inst, origin, rec.id, req),
                            rec.id)

\* Which budgets the loop "Create forecasts in existing budgets within range"
\* does not skip on their name
InBackfillRange(name, origin_name, recurrence_end) ==
    /\ ~StrLE(name, origin_name)
    /\ ~(IsSome(recurrence_end) /\ StrLess(Get(recurrence_end), name))

\* That loop, over the budgets bs still to visit; tpl carries the values copied.
RECURSIVE BackfillLoop(_, _, _, _, _, _)
BackfillLoop(db, bs, origin_name, recurrence_end, rec, tpl) ==
    IF bs = {} THEN db
    ELSE
      LET b == CHOOSE x \in bs : \A y \in bs :
                   \/ StrLess(db.budgets[x].name, db.budgets[y].name)
                   \/ (db.budgets[x].name = db.budgets[y].name /\ x <= y)
          rest == bs \ {b}
      IN  IF ~InBackfillRange(db.budgets[b].name, origin_name, recurrence_end)
          THEN BackfillLoop(db, rest, origin_name, recurrence_end, rec, tpl)
          ELSE IF forecast_exists_for_recurrence(db, rec, b)
          THEN BackfillLoop(db, rest, origin_name, recurrence_end, rec, tpl)
          ELSE BackfillLoop(
                   create_forecast(db,
                       ForecastCreate(tpl.description, tpl.value, b, tpl.category_id,
                                      tpl.tags, Some(rec), None)).db,
                   rest, origin_name, recurrence_end, rec, tpl)

\* The branch `elif is_recurrent`
CreateOpenForecasts(db, bid, req) ==
    LET origin == db.budgets[bid]
        first_forecast == create_forecast(db,
            ForecastCreate(req.description, req.value, bid, req.cat, req.tags, None, None))
        rec == create_recurrence(first_forecast.db,
            [start |-> origin.name, end |-> req.recurrence_end, installments |-> None,
             base_description |-> req.description, value |-> req.value,
             category_id |-> req.cat, tags |-> req.tags,
             project_id |-> origin.project_id])
        linked == [rec.db EXCEPT !.forecasts[first_forecast.id].recurrence_id = Some(rec.id)]
        tpl == [description |-> req.description, value |-> req.value,
                category_id |-> req.cat, tags |-> req.tags]
    IN  [db |-> BackfillLoop(linked, list_budgets(linked, origin.project_id),
                             origin.name, req.recurrence_end, rec.id, tpl),
         rec |-> Some(rec.id), outcome |-> "created"]

\* The two checks of --current-installment
CurrentInstallmentRejected(installments, current_installment) ==
    \/ IsSome(current_installment) /\ ~Truthy(installments)
    \/ /\ IsSome(current_installment) /\ Truthy(installments)
       /\ (Get(current_installment) < 1 \/ Get(current_installment) > Get(installments))

\* What follows the resolution of budget and category: validation, then the
\* three creation branches.  req.cat is the resolved category id.
CreateAfterResolution(db, bid, req) ==
    LET is_recurrent == req.recurrent \/ IsSome(req.recurrence_end) \/ IsSome(req.installments)
    IN  IF CurrentInstallmentRejected(req.installments, req.current_installment)
        THEN [db |-> db, rec |-> None, outcome |-> "rejected"]
        ELSE IF is_recurrent /\ Truthy(req.installments)
        THEN CreateInstallmentForecasts(db, bid, req)
        ELSE IF is_recurrent
        THEN CreateOpenForecasts(db, bid, req)
        ELSE [db |-> create_forecast(db,
                        ForecastCreate(req.description, req.value, bid, req.cat,
                                       req.tags, None, None)).db,
              rec |-> None, outcome |-> "created"]

\* the handler's result for budget bid
InBudget(after, bid) ==
    [db |-> after.db, bid |-> bid, rec |-> after.rec, outcome |-> after.outcome]

\* From the category lookup on; rb is what _resolve_or_create_budget_id
\* returned.
CreateInResolvedBudget(rb, req) ==
    IF rb.raised
    THEN [db |-> rb.db, bid |-> rb.id, rec |-> None, outcome |-> "raised"]
    ELSE
      LET found == IF IsSome(req.category)
                   THEN resolve_category_id(rb.db, Get(req.category)) ELSE None
          declined == IsSome(req.category) /\ found = None /\ ~req.confirm
          db1 == IF IsSome(req.category) /\ found = None /\ req.confirm
                 THEN create_category(rb.db, Get(req.category)) ELSE rb.db
      IN  IF declined
          THEN [db |-> rb.db, bid |-> rb.id, rec |-> None, outcome |-> "declined"]
          ELSE InBudget(CreateAfterResolution(db1, Get(rb.id),
                                              [req EXCEPT !.cat = req.category]),
                        rb.id)

\* The whole handler of `forecast create`.
create_forecast_command(db, req) ==
    IF req.description = None /\ req.category = None /\ req.tags = << >>
    THEN [db |-> db, bid |-> None, rec |-> None, outcome |-> "no_criteria"]
    ELSE CreateInResolvedBudget(
             _resolve_or_create_budget_id(db, req.budget_uuid, req.month), req)

(***************************************************************************)
(* commands/forecasts.py: forecast edit (forecast chosen by --id)          *)
(***************************************************************************)
\* update_forecast: model_dump(exclude_none=True) assigns the fields given
update_forecast(db, fid, data) ==
    [db EXCEPT !.forecasts[fid] =
        [@ EXCEPT !.description = IF IsSome(data.description) THEN data.description ELSE @,
                  !.value = IF IsSome(data.value) THEN Get(data.value) ELSE @,
                  !.category_id = IF IsSome(data.category_id) THEN data.category_id ELSE @,
                  !.tags = IF IsSome(data.tags) THEN Get(data.tags) ELSE @]]

\* "If description changed on a recurrent forecast, update the recurrence's
\* base_description"
SyncBaseDescription(db, fid, description) ==
    LET f == db.forecasts[fid]
    IN  IF IsSome(description) /\ IsSome(f.recurrence_id)
           /\ Get(f.recurrence_id) \in DOMAIN db.recurrences
        THEN [db EXCEPT !.recurrences[Get(f.recurrence_id)].base_description = description]
        ELSE db

\* The branch `if is_recurrent` for a forecast that has no recurrence yet
TurnRecurrent(db, fid, recurrence_end) ==
    LET f == db.forecasts[fid]
        budget_obj == db.budgets[f.budget_id]
        rec == create_recurrence(db,
            [start |-> budget_obj.name, end |-> recurrence_end, installments |-> None,
             base_description |-> f.description, value |-> f.value,
             category_id |-> f.category_id, tags |-> f.tags,
             project_id |-> budget_obj.project_id])
        linked == [rec.db EXCEPT !.forecasts[fid].recurrence_id = Some(rec.id)]
        tpl == [description |-> f.description, value |-> f.value,
                category_id |-> f.category_id, tags |-> f.tags]
    IN  [db |-> BackfillLoop(linked, list_budgets(linked, budget_obj.project_id),
                             budget_obj.name, recurrence_end, rec.id, tpl),
         rec |-> Some(rec.id)]

NowRecurrent(t) == [db |-> t.db, rec |-> t.rec, outcome |-> "now_recurrent"]

\* The whole handler of `forecast edit`.
edit_forecast_command(db, req) ==
    LET cat == IF IsSome(req.category)
               THEN resolve_category_id(db, Get(req.category)) ELSE None
    IN  IF IsSome(req.category) /\ cat = None
        THEN [db |-> db, rec |-> None, outcome |-> "category_not_found"]
        ELSE
          LET updated == update_forecast(db, req.id,
                             [description |-> req.description, value |-> req.value,
                              category_id |-> cat, tags |-> req.tags])
              synced == SyncBaseDescription(updated, req.id, req.description)
              is_recurrent == req.recurrent \/ IsSome(req.recurrence_end)
          IN  IF ~is_recurrent
              THEN [db |-> synced, rec |-> None, outcome |-> "updated"]
              ELSE IF IsSome(synced.forecasts[req.id].recurrence_id)
              THEN [db |-> synced, rec |-> None, outcome |-> "already_recurrent"]
              ELSE NowRecurrent(TurnRecurrent(synced, req.id, req.recurrence_end))

(***************************************************************************)
(* Inputs of the commands                                                  *)
(***************************************************************************)
\* months a budget may be named after on the command line
BudgetMonths == { Month(0), Month(1), Month(2) }

\* months a forecast is authored in
AuthorMonths == { Month(0), Month(1) }

EndChoices == { None, Some(Month(1)) }

\* The recurrence options of `forecast create`: --recurrent, --recurrence-end,
\* --installments, --current-installment.
Shape(r, e, n, k) ==
    [recurrent |-> r, recurrence_end |-> e, installments |-> n, current_installment |-> k]

CreateShapes ==
    { Shape(FALSE, None, None, None),            \* plain forecast
      Shape(FALSE, None, Some(0), None),         \* --installments 0
      Shape(FALSE, None, None, Some(2)),         \* --current-installment alone
      Shape(FALSE, None, Some(2), Some(0)) }     \* --current-installment below 1
    \cup { Shape(TRUE, e, None, None) : e \in EndChoices }
    \cup { Shape(FALSE, None, Some(MaxInstallments), k) :
             k \in { None, Some(2), Some(MaxInstallments + 1) } }

\* description / value / category / tags given to `forecast create`
Templates ==
    { [description |-> Some("rent"), value |-> 0 - 100,
       category |-> Some("home"), tags |-> <<"fixed">>] }

NoCriteria == [description |-> None, value |-> 0 - 50, category |-> None, tags |-> << >>]

\* a recurrent forecast without a description: its recurrence has no
\* base_description
Untitled ==
    [description |-> None, value |-> 0 - 100, category |-> Some("home"),
     tags |-> <<"fixed">>]

CreateRequest(u, m, t, sh, c) ==
    [budget_uuid |-> u, month |-> m,
     description |-> t.description, value |-> t.value,
     category |-> t.category, tags |-> t.tags, cat |-> None,
     recurrent |-> sh.recurrent, recurrence_end |-> sh.recurrence_end,
     installments |-> sh.installments,
     current_installment |-> sh.current_installment, confirm |-> c]

\* The budget is named by month or by UUID; a UUID is used for the budgets
\* that no month of AuthorMonths names unambiguously.  The answer to
\* "create it?" matters only when the category is missing.
CreateRequests(db) ==
    LET byMonth == { <<None, m>> : m \in AuthorMonths }
        byUuid == { <<Some(b), BaseMonth>> :
                      b \in { x \in DOMAIN db.budgets :
                                \/ db.budgets[x].name \notin AuthorMonths
                                \/ Cardinality(BudgetsNamed(db, Project, db.budgets[x].name)) > 1 } }
        answers(t) == IF IsSome(t.category) /\ Get(t.category) \notin db.categories
                      THEN BOOLEAN ELSE { TRUE }
    IN  { CreateRequest(a[1], a[2], NoCriteria, Shape(FALSE, None, None, None), TRUE) :
            a \in byMonth }
        \cup { CreateRequest(None, BaseMonth, Untitled, Shape(TRUE, None, None, None), TRUE) }
        \cup { CreateRequest(None, BaseMonth, t, Shape(FALSE, None, Some(0 - 1), None), TRUE) :
                 t \in Templates }                 \* --installments -1
        \cup UNION { UNION { { CreateRequest(a[1], a[2], t, sh, c) : c \in answers(t) } :
                               a \in byMonth \cup byUuid, sh \in CreateShapes } :
                     t \in Templates }

\* `forecast edit --id F [--value V] --recurrent | --recurrence-end E`
EditRequests(db) ==
    { [id |-> f, description |-> None, value |-> v, category |-> None, tags |-> None,
       recurrent |-> e = None, recurrence_end |-> e] :
         f \in DOMAIN db.forecasts, v \in { None, Some(0 - 150) }, e \in EndChoices }
    \ { [id |-> f, description |-> None, value |-> Some(0 - 150), category |-> None,
          tags |-> None, recurrent |-> FALSE, recurrence_end |-> Some(Month(1))] :
            f \in DOMAIN db.forecasts }

(***************************************************************************)
(* commands/recurrences.py: recurrence edit and delete (chosen by UUID)    *)
(***************************************************************************)
\* the forecasts linked to a recurrence
LinkedForecasts(db, recurrence_id) ==
    { f \in DOMAIN db.forecasts : db.forecasts[f].recurrence_id = Some(recurrence_id) }

\* update_recurrence: model_dump(exclude_unset=True) assigns the fields the
\* handler put into update_data, which are the options that were given
update_recurrence(db, recurrence_id, data) ==
    [db EXCEPT !.recurrences[recurrence_id] =
        [@ EXCEPT !.base_description = IF IsSome(data.description) THEN data.description ELSE @,
                  !.value = IF IsSome(data.value) THEN Get(data.value) ELSE @,
                  !.tags = IF IsSome(data.tags) THEN Get(data.tags) ELSE @,
                  !.start = IF IsSome(data.start) THEN Get(data.start) ELSE @,
                  !.installments = IF IsSome(data.installments)
                                   THEN data.installments ELSE @]]

\* Variant: the template is pushed onto every forecast of the project
PropagateToAll(db, rec) ==
    LET r == db.recurrences[rec]
    IN  [db EXCEPT !.forecasts =
            [f \in DOMAIN db.forecasts |->
                [db.forecasts[f] EXCEPT
                    !.description = IF IsSome(r.base_description)
                                    THEN r.base_description ELSE @,
                    !.value = r.value,
                    !.category_id = r.category_id,
                    !.tags = r.tags]]]

\* propagate_to_forecasts: the description is pushed only when the template
\* has one (`if rec.base_description is not None`)
propagate_to_forecasts(db, rec) ==
    LET r == db.recurrences[rec]
    IN  [db EXCEPT !.forecasts =
            [f \in DOMAIN db.forecasts |->
                IF f \in LinkedForecasts(db, rec)
                THEN [db.forecasts[f] EXCEPT
                         !.description = IF IsSome(r.base_description)
                                         THEN r.base_description ELSE @,
                         !.value = r.value,
                         !.category_id = r.category_id,
                         !.tags = r.tags]
                ELSE db.forecasts[f]]]

\* Variant: the recurrence goes and the forecasts keep their reference
DeleteKeepingLinks(db, recurrence_id, cascade) ==
    [db EXCEPT !.forecasts = IF cascade
                             THEN Remove(db.forecasts, LinkedForecasts(db, recurrence_id))
                             ELSE db.forecasts,
               !.recurrences = Remove(db.recurrences, {recurrence_id})]

\* delete_recurrence: the linked forecasts are deleted (cascade) or detached
delete_recurrence(db, recurrence_id, cascade) ==
    [db EXCEPT !.forecasts =
                  IF cascade
                  THEN Remove(db.forecasts, LinkedForecasts(db, recurrence_id))
                  ELSE [f \in DOMAIN db.forecasts |->
                           IF f \in LinkedForecasts(db, recurrence_id)
                           THEN [db.forecasts[f] EXCEPT !.recurrence_id = None]
                           ELSE db.forecasts[f]],
               !.recurrences = Remove(db.recurrences, {recurrence_id})]

\* `recurrence edit --id R [-d D] [-v V] [-t T] [--propagate]`
EditOptions(description, value, start, installments, propagate) ==
    [description |-> description, value |-> value, tags |-> None, start |-> start,
     installments |-> installments, propagate |-> propagate]

RecurrenceEdits ==
    { EditOptions(Some("lease"), None, None, None, p) : p \in BOOLEAN }
    \cup { EditOptions(None, Some(0 - 120), None, None, p) : p \in BOOLEAN }
    \cup { EditOptions(None, None, Some(Month(1)), Some(1), TRUE) }

(***************************************************************************)
(* State machine: one action per CLI command                               *)
(***************************************************************************)
\* The forecasts of a budget without their ids: how many forecasts carry
\* each (description, value, category, tags, installment).
Content(db, budget_id) ==
    LET row(f) == [description |-> db.forecasts[f].description,
                   value |-> db.forecasts[f].value,
                   category_id |-> db.forecasts[f].category_id,
                   tags |-> db.forecasts[f].tags,
                   installment |-> db.forecasts[f].installment]
        fs == list_forecasts(db, budget_id)
    IN  [c \in { row(f) : f \in fs } |-> Cardinality({ f \in fs : row(f) = c })]

\* The budget holds forecasts, and each is linked to a recurrence of the table.
AllLinked(db, budget_id) ==
    /\ list_forecasts(db, budget_id) # {}
    /\ \A f \in list_forecasts(db, budget_id) :
          /\ IsSome(db.forecasts[f].recurrence_id)
          /\ Get(db.forecasts[f].recurrence_id) \in DOMAIN db.recurrences

\* What the last command was and how it ended (history, not program state).
NoCommand ==
    [op |-> "none", outcome |-> "none", bid |-> None, rec |-> None,
     month |-> BaseMonth, installments |-> None, current_installment |-> None,
     installment |-> None, recreated |-> FALSE, linked |-> FALSE, before |-> << >>,
     cascade |-> FALSE]

WithinBounds(db) ==
    /\ Cardinality(DOMAIN db.budgets) <= MaxBudgets
    /\ Cardinality(DOMAIN db.recurrences) <= MaxRecurrences
    /\ Cardinality(DOMAIN db.forecasts) <= MaxForecasts

\* The tables a command leaves behind; commands counts the commands run.
Commit(db) ==
    /\ WithinBounds(db)
    /\ commands' = commands + 1
    /\ budgets' = db.budgets
    /\ recurrences' = db.recurrences
    /\ forecasts' = db.forecasts
    /\ categories' = db.categories
    /\ UNCHANGED <<accounts, transactions, today, pc, projects, remote, local>>

\* No report runs and no process races under Spec: the tables and the clock
\* they read stay as they start.
\* no project table, no cloud bucket and no local files of the sync commands
Detached ==
    /\ projects = << >>
    /\ remote = << >>
    /\ local = << >>

Idle ==
    /\ accounts = << >>
    /\ transactions = << >>
    /\ today = Date(2025, 11, 15)
    /\ pc = << >>

Init ==
    /\ Detached
    /\ Idle
    /\ budgets = << >>
    /\ recurrences = << >>
    /\ forecasts = << >>
    /\ categories = {}
    /\ last = NoCommand
    /\ commands = 0

\* commands/budgets.py create_budget: `budget create MONTH`
BudgetCreate(m) ==
    /\ commands < MaxCommands
    /\ \E cb \in { create_budget(Database, m, Project) } :
      LET again == last.op = "budget_delete" /\ last.month = m
      IN
        /\ Commit(cb.db)
        /\ last' = [NoCommand EXCEPT !.op = "budget_create",
                        !.outcome = IF cb.raised THEN "raised" ELSE "created",
                        !.bid = Some(cb.id), !.month = m,
                        !.recreated = again,
                        !.linked = again /\ last.linked,
                        !.before = IF again THEN last.before ELSE << >>]

\* commands/budgets.py delete_budget: `budget delete UUID --yes`
BudgetDelete(b) ==
    /\ commands < MaxCommands
    /\ b \in DOMAIN budgets
    /\ \E db \in { delete_budget(Database, b) } : Commit(db)
    /\ last' = [NoCommand EXCEPT !.op = "budget_delete", !.outcome = "deleted",
                    !.month = budgets[b].name,
                    !.linked = AllLinked(Database, b),
                    !.before = Content(Database, b)]

\* commands/budgets.py edit_budget: `budget edit --id UUID [--month MONTH]`
BudgetEdit(b, month) ==
    /\ commands < MaxCommands
    /\ b \in DOMAIN budgets
    /\ \E db \in { update_budget(Database, b, month) } : Commit(db)
    /\ last' = [NoCommand EXCEPT !.op = "budget_edit", !.outcome = "updated",
                    !.bid = Some(b)]

\* commands/forecasts.py create_forecast: `forecast create ...`
ForecastCreateCommand(req) ==
    /\ commands < MaxCommands
    /\ \E res \in { create_forecast_command(Database, req) } :
        /\ Commit(res.db)
        /\ last' = IF res.outcome \in { "created", "raised" } /\ IsSome(res.rec)
                   THEN [NoCommand EXCEPT !.op = "forecast_create",
                            !.outcome = res.outcome, !.bid = res.bid, !.rec = res.rec,
                            !.installments = req.installments,
                            !.current_installment = req.current_installment]
                   ELSE [NoCommand EXCEPT !.op = "forecast_create",
                            !.outcome = res.outcome]

\* commands/forecasts.py edit_forecast: `forecast edit --id UUID ...`
ForecastEditCommand(req) ==
    /\ commands < MaxCommands
    /\ \E res \in { edit_forecast_command(Database, req) } :
        /\ Commit(res.db)
        /\ last' = [NoCommand EXCEPT !.op = "forecast_edit", !.outcome = res.outcome,
                        !.rec = res.rec]

\* commands/recurrences.py edit_recurrence: `recurrence edit --id UUID ...`
RecurrenceEdit(r, data) ==
    /\ commands < MaxCommands
    /\ r \in DOMAIN recurrences
    /\ \E updated \in { update_recurrence(Database, r, data) } :
          \E db \in { IF data.propagate THEN propagate_to_forecasts(updated, r)
                       ELSE updated } :
              Commit(db)
    /\ last' = [NoCommand EXCEPT !.op = "recurrence_edit",
                    !.outcome = IF data.propagate THEN "propagated" ELSE "updated",
                    !.rec = Some(r)]

\* commands/recurrences.py delete_recurrence:
\* `recurrence delete UUID [--cascade] --yes`
RecurrenceDelete(r, cascade) ==
    /\ commands < MaxCommands
    /\ r \in DOMAIN recurrences
    /\ \E db \in { delete_recurrence(Database, r, cascade) } : Commit(db)
    /\ last' = [NoCommand EXCEPT !.op = "recurrence_delete", !.outcome = "deleted",
                    !.rec = Some(r), !.cascade = cascade,
                    !.before = LinkedForecasts(Database, r)]

Next ==
    \/ \E m \in BudgetMonths : BudgetCreate(m)
    \/ \E b \in DOMAIN budgets : BudgetDelete(b)
    \/ \E b \in DOMAIN budgets, m \in { None } \cup { Some(x) : x \in BudgetMonths } :
          BudgetEdit(b, m)
    \/ commands < MaxCommands
       /\ \E req \in CreateRequests(Database) : ForecastCreateCommand(req)
    \/ commands < MaxCommands
       /\ \E req \in EditRequests(Database) : ForecastEditCommand(req)
    \/ \E r \in DOMAIN recurrences, data \in RecurrenceEdits : RecurrenceEdit(r, data)
    \/ \E r \in DOMAIN recurrences, cascade \in BOOLEAN : RecurrenceDelete(r, cascade)

Spec == Init /\ [][Next]_vars

(***************************************************************************)
(* The expander on its own: one stored recurrence, queried for one month   *)
(***************************************************************************)
\* stored installments: unset, or any integer `recurrence edit` can store
StoredInstallments == { None } \cup { Some(n) : n \in (0 - 1)..(MaxInstallments + 1) }

StoredMonths == { Month(k) : k \in 0..2 }

QueryMonths == { Month(k) : k \in (0 - 2)..5 }

InitExpand ==
    /\ Detached
    /\ Idle
    /\ budgets = << >>
    /\ forecasts = << >>
    /\ categories = {}
    /\ last = NoCommand
    /\ commands = 0
    /\ \E s \in StoredMonths, e \in { None } \cup { Some(m) : m \in StoredMonths },
          n \in StoredInstallments :
          recurrences = 1 :> [start |-> s, end |-> e, installments |-> n,
                              base_description |-> Some("rent"), value |-> 0 - 100,
                              category_id |-> None, tags |-> << >>,
                              project_id |-> Project]

\* get_recurrences_for_month and get_installment_number for month m
Expand(m) ==
    /\ commands = 0
    /\ commands' = 1
    /\ last' = [NoCommand EXCEPT !.op = "expand", !.month = m,
                    !.outcome = IF 1 \in get_recurrences_for_month(Database, Project, m)
                                THEN "applies" ELSE "skips",
                    !.installment = Some(get_installment_number(recurrences[1], m))]
    /\ UNCHANGED <<budgets, recurrences, forecasts, categories, accounts,
                   transactions, today, pc, projects, remote, local>>

NextExpand == \E m \in QueryMonths : Expand(m)

SpecExpand == InitExpand /\ [][NextExpand]_vars

(***************************************************************************)
(* services/reports.py                                                     *)
(*                                                                         *)
(* Descriptions are sequences of characters here, so that the substring    *)
(* test and str.lower() are computed; amounts are integers (Decimal        *)
(* arithmetic is exact, and Decimal(str(x)) of a Decimal is x).  An        *)
(* account row carries the set of projects the project_accounts table      *)
(* joins it to.                                                            *)
(***************************************************************************)
\* The other project of the store: accounts can belong to both.
OtherProject == "p2"

\* str.lower() for one character of the alphabet descriptions are written in
LowerChar(c) ==
    CASE c = "R" -> "r"
      [] c = "E" -> "e"
      [] c = "N" -> "n"
      [] OTHER -> c

\* str.lower()
lower(s) == [i \in 1..Len(s) |-> LowerChar(s[i])]

\* Python `needle in haystack` on strings: needle occurs at some offset
Contains(needle, haystack) ==
    \E k \in 0..(Len(haystack) - Len(needle)) :
        SubSeq(haystack, k + 1, k + Len(needle)) = needle

\* truth value of an optional string: None and "" are false
TruthyText(o) == IsSome(o) /\ Get(o) # << >>

\* has_criteria = forecast.description or forecast.category_id or forecast.tags
has_criteria(forecast) ==
    TruthyText(forecast.description) \/ IsSome(forecast.category_id)
        \/ forecast.tags # << >>

\* Variant: one forecast tag among the transaction's tags is enough
CountedAnyTag(forecast, t) ==
    /\ ~(IsSome(forecast.category_id) /\ t.category_id # forecast.category_id)
    /\ ~(/\ TruthyText(forecast.description)
         /\ ~Contains(lower(Get(forecast.description)), lower(t.description)))
    /\ ~(/\ forecast.tags # << >>
         /\ ~(\E i \in 1..Len(forecast.tags) :
                 \E j \in 1..Len(t.tags) : t.tags[j] = forecast.tags[i]))

\* The loop body over the transactions: the transaction is added to actual
\* unless one of the three tests hits `continue`.
Counted(forecast, t) ==
    /\ ~(IsSome(forecast.category_id) /\ t.category_id # forecast.category_id)
    /\ ~(/\ TruthyText(forecast.description)
         /\ ~Contains(lower(Get(forecast.description)), lower(t.description)))
    /\ ~(/\ forecast.tags # << >>
         /\ ~(\A i \in 1..Len(forecast.tags) :
                 \E j \in 1..Len(t.tags) : t.tags[j] = forecast.tags[i]))

\* sum(t.value for t in ts)
RECURSIVE SumValues(_)
SumValues(ts) ==
    IF ts = {} THEN 0
    ELSE LET t == CHOOSE x \in ts : TRUE
         IN  transactions[t].value + SumValues(ts \ {t})

\* actual of one forecast over the transactions ts
forecast_actual(forecast, ts) ==
    IF has_criteria(forecast)
    THEN SumValues({ t \in ts : Counted(forecast, transactions[t]) })
    ELSE 0

\* the transactions of a project dated inside [start_date, end_date]
PeriodTransactions(project_id, start_date, end_date) ==
    { t \in DOMAIN transactions :
        /\ transactions[t].project_id = project_id
        /\ transactions[t].date >= start_date
        /\ transactions[t].date <= end_date }

\* the cumulative query: the transactions of the budget's project dated on
\* or before the budget's end
CumulativeTransactions(budget) ==
    { t \in DOMAIN transactions :
        /\ transactions[t].project_id = budget.project_id
        /\ transactions[t].date <= budget.end_date }

\* the accounts project_accounts joins to the project
ProjectAccounts(project_id) ==
    { a \in DOMAIN accounts : project_id \in accounts[a].projects }

\* one AccountBalance entry
AccountBalance(a, period, cumulative) ==
    LET net == SumValues({ t \in period : transactions[t].account_id = a })
        calculated_balance ==
            accounts[a].initial_balance
              + SumValues({ t \in cumulative : transactions[t].account_id = a })
    IN  [balance |-> net, calculated_balance |-> calculated_balance,
         current_balance |-> accounts[a].current_balance,
         difference |-> calculated_balance - accounts[a].current_balance]

\* one ForecastActual entry
ForecastActual(f, period) ==
    [forecast_value |-> forecasts[f].value,
     actual_value |-> forecast_actual(forecasts[f], period),
     difference |-> forecasts[f].value - forecast_actual(forecasts[f], period)]

\* ORDER BY Budget.name: the position of budget b among the budgets of its
\* project (budgets of one name in the order of their ids)
NamePosition(b) ==
    1 + Cardinality({ x \in DOMAIN budgets :
            /\ budgets[x].project_id = budgets[b].project_id
            /\ \/ StrLess(budgets[x].name, budgets[b].name)
               \/ budgets[x].name = budgets[b].name /\ x < b })

BudgetAt(project_id, i) ==
    CHOOSE b \in DOMAIN budgets :
        budgets[b].project_id = project_id /\ NamePosition(b) = i

RECURSIVE SumRemaining(_, _)
SumRemaining(fs, period) ==
    IF fs = {} THEN 0
    ELSE LET f == CHOOSE x \in fs : TRUE
         IN  (forecasts[f].value - forecast_actual(forecasts[f], period))
               + SumRemaining(fs \ {f}, period)

\* forecast - actual summed over the forecasts of budget b, the actuals
\* matched against the transactions of the target's project in b's range
BudgetRemaining(b, project_id) ==
    SumRemaining({ f \in DOMAIN forecasts : forecasts[f].budget_id = b },
                 PeriodTransactions(project_id, budgets[b].start_date,
                                    budgets[b].end_date))

\* Variant: only budgets that have not started yet
FutureOnly(b) == budgets[b].start_date > today

\* b.start_date > today or (b.start_date <= today <= b.end_date)
CurrentOrFuture(b) ==
    \/ budgets[b].start_date > today
    \/ budgets[b].start_date <= today /\ today <= budgets[b].end_date

\* The loop of _calculate_accumulated_remaining from position i on.
RECURSIVE RemainingWalk(_, _, _)

RemainingVisit(b, i, target, cumulative) ==
    IF CurrentOrFuture(b)
    THEN IF StrLess(budgets[target].name, budgets[b].name)
         THEN cumulative
         ELSE RemainingWalk(i + 1, target,
                  cumulative + BudgetRemaining(b, budgets[target].project_id))
    ELSE RemainingWalk(i + 1, target, cumulative)

RemainingWalk(i, target, cumulative) ==
    IF i > Cardinality({ x \in DOMAIN budgets :
                           budgets[x].project_id = budgets[target].project_id })
    THEN cumulative
    ELSE RemainingVisit(BudgetAt(budgets[target].project_id, i), i, target,
                        cumulative)

_calculate_accumulated_remaining(target) == RemainingWalk(1, target, 0)

\* the totals loop: a positive value is an earning, any other an expense
total_earnings(period) == SumValues({ t \in period : transactions[t].value > 0 })

total_expenses(period) == 0 - SumValues({ t \in period : ~(transactions[t].value > 0) })

generate_report(budget_id) ==
    LET budget == budgets[budget_id]
        is_projected == budget.end_date > today
        period == PeriodTransactions(budget.project_id, budget.start_date,
                                     budget.end_date)
    IN  [budget_id |-> budget_id,
         is_projected |-> is_projected,
         account_balances |->
             [a \in ProjectAccounts(budget.project_id) |->
                 AccountBalance(a, period, CumulativeTransactions(budget))],
         total_earnings |-> total_earnings(period),
         total_expenses |-> total_expenses(period),
         forecasts |->
             [f \in { x \in DOMAIN forecasts : forecasts[x].budget_id = budget_id }
                 |-> ForecastActual(f, period)],
         accumulated_remaining |->
             IF is_projected THEN Some(_calculate_accumulated_remaining(budget_id))
             ELSE None]

(***************************************************************************)
(* Reports on their own: a drawn store and clock, one report               *)
(***************************************************************************)
MaxTransactions == 2

\* a forecast of budget 1 with any combination of criteria
MatchDescriptions ==
    { None, Some(<< >>), Some(<<"R", "e">>), Some(<<"e", "r">>), Some(<<"e">>) }

MatchCategories == { None, Some("home") }

MatchTags == { << >>, <<"a">>, <<"a", "b">> }

\* The transactions a store is drawn from.  The values are distinct powers
\* of two, so a sum tells which transactions went into it.
TransactionPool ==
    LET row(v, d, dt, tg, c, a, p) ==
            [value |-> v, description |-> d, date |-> dt, tags |-> tg,
             category_id |-> c, account_id |-> a, project_id |-> p]
    IN  << row(1, <<"r", "E">>, Date(2025, 11, 1), <<"a", "b", "c">>,
               Some("home"), 1, Project),
           row(2, <<"e">>, Date(2025, 11, 30), <<"a">>, Some("food"), 1, Project),
           row(4, <<"R", "e", "n">>, Date(2025, 11, 15), << >>, None, 2, Project),
           row(8, <<"r", "E">>, Date(2025, 12, 1), <<"a", "b">>,
               Some("home"), 1, Project),
           row(16, <<"r", "E">>, Date(2025, 10, 31), <<"a", "b">>,
               Some("home"), 1, Project),
           row(32, <<"r", "E">>, Date(2025, 11, 15), <<"a", "b">>,
               Some("home"), 2, OtherProject),
           row(64, <<"r", "E">>, Date(2026, 1, 31), <<"a">>,
               Some("home"), 2, Project) >>

\* the days a report is asked for
Clock ==
    { Date(2025, 10, 31), Date(2025, 11, 15), Date(2025, 11, 30),
      Date(2025, 12, 1), Date(2026, 2, 1) }

InitReport ==
    /\ Detached
    /\ recurrences = << >>
    /\ categories = { "home", "food" }
    /\ pc = << >>
    /\ last = NoCommand
    /\ commands = 0
    /\ budgets = (1 :> BudgetRow(Month(0), Project)) @@ (2 :> BudgetRow(Month(1), Project))
                   @@ (3 :> BudgetRow(Month(2), Project))
                   @@ (4 :> BudgetRow(Month(1), OtherProject))
    /\ accounts = (1 :> [initial_balance |-> 100, current_balance |-> 103,
                         projects |-> { Project }])
                    @@ (2 :> [initial_balance |-> 0, current_balance |-> 0,
                              projects |-> { Project, OtherProject }])
    /\ today \in Clock
    /\ \E d \in MatchDescriptions, c \in MatchCategories, tg \in MatchTags :
          forecasts =
              (1 :> ForecastCreate(d, 0 - 50, 1, c, tg, None, None))
                @@ (2 :> ForecastCreate(None, 0 - 30, 2, Some("home"), << >>, None, None))
                @@ (3 :> ForecastCreate(None, 20, 3, None, <<"a">>, None, None))
                @@ (4 :> ForecastCreate(None, 0 - 7, 4, Some("home"), << >>, None, None))
    /\ \E ts \in SUBSET (1..Len(TransactionPool)) :
          /\ Cardinality(ts) <= MaxTransactions
          /\ transactions = [t \in ts |-> TransactionPool[t]]

\* `report show` for budget b
Report(b) ==
    /\ commands = 0
    /\ commands' = 1
    /\ \E res \in { generate_report(b) } :
          last' = [op |-> "report", report |-> res]
    /\ UNCHANGED <<budgets, recurrences, forecasts, categories, accounts,
                   transactions, today, pc, projects, remote, local>>

NextReport == \E b \in DOMAIN budgets : Report(b)

SpecReport == InitReport /\ [][NextReport]_vars

(***************************************************************************)
(* The ledger: transactions posted to accounts                             *)
(*                                                                         *)
(* reports.py, commands/transactions.py and the tests use transactions     *)
(* with one account_id and accounts with initial_balance and               *)
(* current_balance, and the tests expect the transaction service to adjust *)
(* current_balance.  The service functions below follow that behaviour:    *)
(* the balance of the owning account moves by the value of a transaction   *)
(* when it is created, back when it is deleted, and by the change when it  *)
(* is edited.                                                              *)
(***************************************************************************)
\* current_balance of account a moved by delta
Adjusted(accts, a, delta) ==
    [accts EXCEPT ![a].current_balance = @ + delta]

\* create_transaction: the row is stored and the account credited
create_transaction(store, data) ==
    [accounts |-> Adjusted(store.accounts, data.account_id, data.value),
     transactions |-> Insert(store.transactions, FreshId(store.transactions), data)]

\* delete_transaction: the row goes and the account is restored
delete_transaction(store, t) ==
    [accounts |-> Adjusted(store.accounts, store.transactions[t].account_id,
                           0 - store.transactions[t].value),
     transactions |-> Remove(store.transactions, {t})]

\* Variant: a change of account leaves the balances where they were
UpdateWithoutMovingBalance(store, t, value, account_id) ==
    LET old == store.transactions[t]
        new == [old EXCEPT !.value = IF IsSome(value) THEN Get(value) ELSE @,
                           !.account_id = IF IsSome(account_id) THEN Get(account_id) ELSE @]
    IN  [accounts |-> Adjusted(store.accounts, old.account_id, new.value - old.value),
         transactions |-> [store.transactions EXCEPT ![t] = new]]

\* update_transaction with an optional new value and an optional new
\* account: the old value leaves the old account and the new value enters
\* the new one
update_transaction(store, t, value, account_id) ==
    LET old == store.transactions[t]
        new == [old EXCEPT !.value = IF IsSome(value) THEN Get(value) ELSE @,
                           !.account_id = IF IsSome(account_id) THEN Get(account_id) ELSE @]
    IN  [accounts |-> Adjusted(Adjusted(store.accounts, old.account_id, 0 - old.value),
                               new.account_id, new.value),
         transactions |-> [store.transactions EXCEPT ![t] = new]]

Ledger == [accounts |-> accounts, transactions |-> transactions]

\* amounts posted, and opening balances of the two accounts
Amounts == { 0 - 50, 30 }

OpeningBalances == { 0, 100 }

\* a transaction of value v on account a
Posting(v, a) ==
    [value |-> v, description |-> <<"r", "E">>, date |-> Date(2025, 11, 15),
     tags |-> << >>, category_id |-> None, account_id |-> a, project_id |-> Project]

\* create_account stores current_balance = initial_balance
InitLedger ==
    /\ Detached
    /\ budgets = << >>
    /\ recurrences = << >>
    /\ forecasts = << >>
    /\ categories = {}
    /\ today = Date(2025, 11, 15)
    /\ pc = << >>
    /\ last = NoCommand
    /\ commands = 0
    /\ transactions = << >>
    /\ \E i \in OpeningBalances, j \in OpeningBalances :
          accounts = (1 :> [initial_balance |-> i, current_balance |-> i,
                            projects |-> { Project }])
                       @@ (2 :> [initial_balance |-> j, current_balance |-> j,
                                 projects |-> { Project }])

\* what a ledger operation leaves behind
Posted(store, op, moved) ==
    /\ Cardinality(DOMAIN store.transactions) <= MaxTransactions
    /\ commands' = commands + 1
    /\ accounts' = store.accounts
    /\ transactions' = store.transactions
    /\ last' = [op |-> op, moved |-> moved]
    /\ UNCHANGED <<budgets, recurrences, forecasts, categories, today, pc, projects, remote, local>>

TransactionCreate(v, a) ==
    /\ commands < MaxCommands
    /\ \E store \in { create_transaction(Ledger, Posting(v, a)) } :
          Posted(store, "transaction_create", FALSE)

TransactionUpdate(t, value, account_id) ==
    /\ commands < MaxCommands
    /\ t \in DOMAIN transactions
    /\ \E store \in { update_transaction(Ledger, t, value, account_id) } :
          Posted(store, "transaction_update",
                 IsSome(account_id) /\ Get(account_id) # transactions[t].account_id)

TransactionDelete(t) ==
    /\ commands < MaxCommands
    /\ t \in DOMAIN transactions
    /\ \E store \in { delete_transaction(Ledger, t) } :
          Posted(store, "transaction_delete", FALSE)

NextLedger ==
    \/ \E v \in Amounts, a \in DOMAIN accounts : TransactionCreate(v, a)
    \/ \E t \in DOMAIN transactions,
          value \in { None } \cup { Some(v) : v \in Amounts },
          account_id \in { None } \cup { Some(a) : a \in DOMAIN accounts } :
          TransactionUpdate(t, value, account_id)
    \/ \E t \in DOMAIN transactions : TransactionDelete(t)

SpecLedger == InitLedger /\ [][NextLedger]_vars

(***************************************************************************)
(* Two processes run create_budget for the same project and month          *)
(*                                                                         *)
(* Each process is a CLI invocation with its own session on the shared     *)
(* database; every awaited statement of create_budget and                  *)
(* _populate_recurrent_forecasts is one step, and the steps of the two     *)
(* processes interleave in any order.                                      *)
(***************************************************************************)
Processes == { 1, 2 }

\* Variant: a process takes the budget of that name when there is one
SharedBudget(db, name, project_id) ==
    IF BudgetsNamed(db, project_id, name) # {}
    THEN [db |-> db, id |-> CHOOSE b \in BudgetsNamed(db, project_id, name) : TRUE]
    ELSE [db |-> [db EXCEPT !.budgets =
                     Insert(@, FreshId(db.budgets), BudgetRow(name, project_id))],
          id |-> FreshId(db.budgets)]

\* create_budget up to db.refresh(budget): a new row with an id of its own
OwnBudget(db, name, project_id) ==
    [db |-> [db EXCEPT !.budgets =
                Insert(@, FreshId(db.budgets), BudgetRow(name, project_id))],
     id |-> FreshId(db.budgets)]

\* the month both processes create, and the stores they start from: the
\* store `forecast create 2025-11 ...` with a recurrence option leaves
RaceMonths == { Month(1), Month(2) }

RaceStores ==
    { create_forecast_command(
          [budgets |-> << >>, recurrences |-> << >>, forecasts |-> << >>,
           categories |-> { "home" }],
          CreateRequest(None, BaseMonth, t, sh, TRUE)).db :
        t \in Templates,
        sh \in { Shape(TRUE, None, None, None), Shape(TRUE, Some(Month(1)), None, None),
                 Shape(FALSE, None, Some(MaxInstallments), None) } }

Waiting(m) ==
    [at |-> "insert_budget", month |-> m, budget |-> None, todo |-> {}, rec |-> None,
     raised |-> FALSE]

InitRace ==
    /\ Detached
    /\ accounts = << >>
    /\ transactions = << >>
    /\ today = Date(2025, 11, 15)
    /\ commands = 0
    /\ last = [op |-> "race", overlapped |-> FALSE]
    /\ \E m \in RaceMonths : pc = [p \in Processes |-> Waiting(m)]
    /\ \E db \in RaceStores :
          /\ budgets = db.budgets
          /\ recurrences = db.recurrences
          /\ forecasts = db.forecasts
          /\ categories = db.categories

\* the process has passed the existence check and has not inserted yet
PastCheck(p) == pc[p].at = "insert_forecast"

\* db.add(budget); await db.commit(); await db.refresh(budget)
InsertBudget(p) ==
    /\ pc[p].at = "insert_budget"
    /\ \E own \in { OwnBudget(Database, pc[p].month, Project) } :
          /\ budgets' = own.db.budgets
          /\ pc' = [pc EXCEPT ![p].at = "query", ![p].budget = Some(own.id)]
    /\ UNCHANGED <<recurrences, forecasts, categories, accounts, transactions,
                   today, last, commands, projects, remote, local>>

\* recurrences = await get_recurrences_for_month(...)
QueryRecurrences(p) ==
    /\ pc[p].at = "query"
    /\ pc' = [pc EXCEPT ![p].at = "check",
                        ![p].todo = get_recurrences_for_month(Database, Project, pc[p].month)]
    /\ UNCHANGED <<budgets, recurrences, forecasts, categories, accounts,
                   transactions, today, last, commands, projects, remote, local>>

\* the head of the loop: the next recurrence, the existence check for it and
\* `continue` when the forecast exists
CheckExists(p) ==
    /\ pc[p].at = "check"
    /\ IF pc[p].todo = {}
       THEN /\ pc' = [pc EXCEPT ![p].at = "done"]
            /\ UNCHANGED last
       ELSE LET rec == CHOOSE r \in pc[p].todo : \A q \in pc[p].todo : r <= q
            IN  IF forecast_exists_for_recurrence(Database, rec, Get(pc[p].budget))
                THEN /\ pc' = [pc EXCEPT ![p].todo = @ \ {rec}]
                     /\ UNCHANGED last
                ELSE /\ pc' = [pc EXCEPT ![p].at = "insert_forecast",
                                         ![p].todo = @ \ {rec}, ![p].rec = Some(rec)]
                     /\ last' = [last EXCEPT !.overlapped =
                                     @ \/ \E q \in Processes \ {p} : PastCheck(q)]
    /\ UNCHANGED <<budgets, recurrences, forecasts, categories, accounts,
                   transactions, today, commands, projects, remote, local>>

\* the rest of the loop body: rec.original_forecast, and the insert of the
\* forecast built from it
InsertForecast(p) ==
    /\ pc[p].at = "insert_forecast"
    /\ \E step \in { MaterializeForecast(Database, Get(pc[p].rec), Get(pc[p].budget)) } :
          /\ forecasts' = step.db.forecasts
          /\ pc' = [pc EXCEPT ![p].at = IF step.raised THEN "done" ELSE "check",
                              ![p].raised = step.raised]
    /\ UNCHANGED <<budgets, recurrences, categories, accounts, transactions,
                   today, last, commands, projects, remote, local>>

NextRace ==
    \/ \E p \in Processes : InsertBudget(p)
    \/ \E p \in Processes : QueryRecurrences(p)
    \/ \E p \in Processes : CheckExists(p)
    \/ \E p \in Processes : InsertForecast(p)

SpecRace == InitRace /\ [][NextRace]_vars

(***************************************************************************)
(* Month arithmetic as a pure function: the token and the offset are drawn *)
(* by Init and by the action, _month_offset is applied once, and the       *)
(* result is parsed back by _months_between.                               *)
(***************************************************************************)
MaxOffset == 13

\* The years at the two ends of the four-digit range and one in the middle.
TokenYears == {0, 1, 2025, 9998, 9999}

ValidTokens == { FormatMonth(y, m) : y \in TokenYears, m \in 1..12 }

ValueError == [raised |-> TRUE, value |-> 0]

Returned(value) == [raised |-> FALSE, value |-> value]

\* start.split("-") of _months_between, which raises on a token it cannot unpack
MonthsBetweenOrError(start, end) ==
    IF Parses(start) /\ Parses(end) THEN Returned(_months_between(start, end))
    ELSE ValueError

InitMonths ==
    /\ Detached
    /\ Idle
    /\ budgets = << >> /\ recurrences = << >> /\ forecasts = << >>
    /\ categories = << >>
    /\ commands = 0
    /\ \E a \in ValidTokens : last = [op |-> "token", a |-> a]

Offset(n) ==
    /\ commands = 0
    /\ commands' = 1
    /\ \E token \in { _month_offset(last.a, n) } :
           last' = [op |-> "offset", a |-> last.a, n |-> n, token |-> token,
                    back |-> MonthsBetweenOrError(last.a, token)]
    /\ UNCHANGED <<budgets, recurrences, forecasts, categories, accounts,
                   transactions, today, pc, projects, remote, local>>

NextMonths == \E n \in (0 - MaxOffset)..MaxOffset : Offset(n)

SpecMonths == InitMonths /\ [][NextMonths]_vars

(***************************************************************************)
(* Sync (src/bud/commands/sync.py): two machines share one bucket.  The    *)
(* bucket holds the database file and sync_meta.json; each machine holds   *)
(* its database file, its sync_meta.json and the backup pull leaves.  A    *)
(* command is not atomic: every call on the provider and every file write  *)
(* is one step, and the steps of the two machines interleave.  A database  *)
(* file is modelled by a number that names its content.  pc holds the      *)
(* position of each machine's running command; last.published is the       *)
(* history of the versions written to the bucket's sync_meta.json.         *)
(***************************************************************************)
Clients == {1, 2}

MaxSyncCommands == 4

\* meta.get("version", 0) of an optional metadata object
Version(meta) == IF IsSome(meta) THEN Get(meta).version ELSE 0

\* _load_local_meta()["version"]: {"version": 0} when the file is missing
LocalVersion(c) == Version(local[c].meta)

\* remote_meta.get("version", 0) if remote_meta else 0
RemoteVersion == Version(remote.meta)

Max(a, b) == IF a >= b THEN a ELSE b

\* a variant that lets a remote one version ahead through
PushRefusedTwoAhead(force, local_version, remote_version) ==
    remote_version > local_version + 1 /\ ~force

\* push: `if remote_version > local_version and not force`
PushRefused(force, local_version, remote_version) ==
    remote_version > local_version /\ ~force

\* pull: `if local_version > remote_version and not force`
PullRefused(force, local_version, remote_version) ==
    local_version > remote_version /\ ~force

AtRest == [at |-> "idle"]

SyncStep(op, c, force, outcome) ==
    [op |-> op, client |-> c, force |-> force, outcome |-> outcome,
     published |-> last.published]

InitSync ==
    /\ accounts = << >> /\ transactions = << >> /\ today = Date(2025, 11, 15)
    /\ projects = << >>
    /\ budgets = << >> /\ recurrences = << >> /\ forecasts = << >>
    /\ categories = << >>
    /\ remote = [db |-> None, meta |-> None]
    /\ local = [c \in Clients |-> [db |-> c, meta |-> None, bak |-> None]]
    /\ pc = [c \in Clients |-> AtRest]
    /\ last = [op |-> "none", client |-> 0, force |-> FALSE, outcome |-> "none",
               published |-> << >>]
    /\ commands = 0

SyncFrame ==
    UNCHANGED <<budgets, recurrences, forecasts, categories, accounts,
                transactions, today, projects>>

\* push, lines 74-88: both versions are read and the command is refused or
\* goes on with new_version
PushStart(c, force) ==
    /\ commands < MaxSyncCommands
    /\ pc[c] = AtRest
    /\ commands' = commands + 1
    /\ IF PushRefused(force, LocalVersion(c), RemoteVersion)
       THEN /\ last' = SyncStep("push", c, force, "refused")
            /\ UNCHANGED pc
       ELSE /\ last' = SyncStep("push", c, force, "started")
            /\ pc' = [pc EXCEPT ![c] =
                        [at |-> "upload",
                         new_version |-> Max(LocalVersion(c), RemoteVersion) + 1]]
    /\ UNCHANGED <<remote, local>>
    /\ SyncFrame

\* push, line 90: provider.upload(DB_PATH, REMOTE_DB_KEY)
PushUpload(c) ==
    /\ pc[c].at = "upload"
    /\ remote' = [remote EXCEPT !.db = Some(local[c].db)]
    /\ pc' = [pc EXCEPT ![c].at = "upload_json"]
    /\ last' = SyncStep("push", c, last.force, "uploading")
    /\ UNCHANGED <<local, commands>>
    /\ SyncFrame

\* push, line 91: provider.upload_json(new_meta, REMOTE_META_KEY)
PushUploadJson(c) ==
    /\ pc[c].at = "upload_json"
    /\ remote' = [remote EXCEPT !.meta = Some([version |-> pc[c].new_version])]
    /\ pc' = [pc EXCEPT ![c].at = "save_local_meta"]
    /\ last' = [SyncStep("push", c, last.force, "published") EXCEPT
                   !.published = Append(last.published, pc[c].new_version)]
    /\ UNCHANGED <<local, commands>>
    /\ SyncFrame

\* push, line 92: _save_local_meta(new_meta)
PushSaveLocalMeta(c) ==
    /\ pc[c].at = "save_local_meta"
    /\ local' = [local EXCEPT ![c].meta = Some([version |-> pc[c].new_version])]
    /\ pc' = [pc EXCEPT ![c] = AtRest]
    /\ last' = SyncStep("push", c, last.force, "pushed")
    /\ UNCHANGED <<remote, commands>>
    /\ SyncFrame

\* pull, lines 114-130: the remote metadata is read and the command is refused
\* or goes on with it
PullStart(c, force) ==
    /\ commands < MaxSyncCommands
    /\ pc[c] = AtRest
    /\ commands' = commands + 1
    /\ IF remote.meta = None \/ PullRefused(force, LocalVersion(c), RemoteVersion)
       THEN /\ last' = SyncStep("pull", c, force, "refused")
            /\ UNCHANGED pc
       ELSE /\ last' = SyncStep("pull", c, force, "started")
            /\ pc' = [pc EXCEPT ![c] = [at |-> "download", remote_meta |-> remote.meta]]
    /\ UNCHANGED <<remote, local>>
    /\ SyncFrame

\* pull, lines 134-138: the backup copy and provider.download
PullDownload(c) ==
    /\ pc[c].at = "download"
    /\ local' = [local EXCEPT ![c].bak = Some(local[c].db), ![c].db = Get(remote.db)]
    /\ pc' = [pc EXCEPT ![c].at = "save_remote_meta"]
    /\ last' = SyncStep("pull", c, last.force, "downloading")
    /\ UNCHANGED <<remote, commands>>
    /\ SyncFrame

\* pull, line 139: _save_local_meta(remote_meta)
PullSaveLocalMeta(c) ==
    /\ pc[c].at = "save_remote_meta"
    /\ local' = [local EXCEPT ![c].meta = pc[c].remote_meta]
    /\ pc' = [pc EXCEPT ![c] = AtRest]
    /\ last' = SyncStep("pull", c, last.force, "pulled")
    /\ UNCHANGED <<remote, commands>>
    /\ SyncFrame

NextSync ==
    \/ \E c \in Clients, force \in BOOLEAN : PushStart(c, force)
    \/ \E c \in Clients : PushUpload(c)
    \/ \E c \in Clients : PushUploadJson(c)
    \/ \E c \in Clients : PushSaveLocalMeta(c)
    \/ \E c \in Clients, force \in BOOLEAN : PullStart(c, force)
    \/ \E c \in Clients : PullDownload(c)
    \/ \E c \in Clients : PullSaveLocalMeta(c)

SpecSync == InitSync /\ [][NextSync]_vars

(***************************************************************************)
(* Projects (src/bud/services/projects.py).  A row of the projects table   *)
(* is [name, is_default, user_id]; every service call is one transaction.  *)
(***************************************************************************)
MaxProjects == 3

MaxProjectCommands == 4

Users == {"u1", "u2"}

ProjectNames == {"home", "work"}

\* ids a caller may name: those of the table and one that matches no row
ProjectIds == 1..(MaxProjects + 1)

\* select(Project).where(Project.id == project_id, Project.user_id == user_id)
get_project(table, project_id, user_id) ==
    IF project_id \in DOMAIN table /\ table[project_id].user_id = user_id
    THEN Some(project_id) ELSE None

\* UniqueConstraint("name", "user_id"): the commit raises IntegrityError
NameTaken(table, name, user_id, except) ==
    \E i \in DOMAIN table \ except :
        table[i].name = name /\ table[i].user_id = user_id

create_project(table, name, user_id) ==
    IF NameTaken(table, name, user_id, {})
    THEN [table |-> table, result |-> None]
    ELSE LET id == FreshId(table)
         IN  [table |-> Insert(table, id, [name |-> name, is_default |-> FALSE,
                                            user_id |-> user_id]),
              result |-> Some(id)]

\* setattr for every field of data.model_dump(exclude_none=True)
update_project(table, project_id, user_id, data) ==
    IF get_project(table, project_id, user_id) = None
    THEN [table |-> table, result |-> None]
    ELSE LET row == table[project_id]
             changed == [row EXCEPT
                            !.name = IF IsSome(data.name) THEN Get(data.name) ELSE @,
                            !.is_default = IF IsSome(data.is_default)
                                           THEN Get(data.is_default) ELSE @]
         IN  IF NameTaken(table, changed.name, user_id, {project_id})
             THEN [table |-> table, result |-> None]
             ELSE [table |-> [table EXCEPT ![project_id] = changed],
                   result |-> Some(project_id)]

delete_project(table, project_id, user_id) ==
    IF get_project(table, project_id, user_id) = None
    THEN [table |-> table, result |-> FALSE]
    ELSE [table |-> Remove(table, {project_id}), result |-> TRUE]

\* update(Project).where(Project.user_id == user_id).values(is_default=False)
UnsetDefaults(table, user_id) ==
    [i \in DOMAIN table |->
        IF table[i].user_id = user_id THEN [table[i] EXCEPT !.is_default = FALSE]
        ELSE table[i]]

\* a variant that commits the unset flags when the project is not found
SetDefaultWithoutRollback(table, project_id, user_id) ==
    LET unset == UnsetDefaults(table, user_id)
    IN  IF get_project(unset, project_id, user_id) = None
        THEN [table |-> unset, result |-> None]
        ELSE [table |-> [unset EXCEPT ![project_id].is_default = TRUE],
              result |-> Some(project_id)]

set_default_project(table, project_id, user_id) ==
    LET unset == UnsetDefaults(table, user_id)
    IN  IF get_project(unset, project_id, user_id) = None
        THEN [table |-> table, result |-> None]
        ELSE [table |-> [unset EXCEPT ![project_id].is_default = TRUE],
              result |-> Some(project_id)]

ProjectUpdates ==
    { [name |-> n, is_default |-> d] :
        n \in {None} \cup { Some(x) : x \in ProjectNames },
        d \in {None, Some(TRUE), Some(FALSE)} }

InitProjects ==
    /\ Idle
    /\ remote = << >> /\ local = << >>
    /\ budgets = << >> /\ recurrences = << >> /\ forecasts = << >>
    /\ categories = << >>
    /\ projects = << >>
    /\ last = [op |-> "none"]
    /\ commands = 0

Called(op, project_id, user_id, res) ==
    /\ projects' = res.table
    /\ last' = [op |-> op, project_id |-> project_id, user_id |-> user_id,
                result |-> res.result, before |-> projects]
    /\ commands' = commands + 1
    /\ UNCHANGED <<budgets, recurrences, forecasts, categories, accounts,
                   transactions, today, pc, remote, local>>

ProjectCreate(name, u) ==
    /\ commands < MaxProjectCommands
    /\ Cardinality(DOMAIN projects) < MaxProjects
    /\ \E res \in { create_project(projects, name, u) } :
           Called("create", IF IsSome(res.result) THEN Get(res.result) ELSE 0, u, res)

ProjectUpdate(p, u, data) ==
    /\ commands < MaxProjectCommands
    /\ \E res \in { update_project(projects, p, u, data) } : Called("update", p, u, res)

ProjectDelete(p, u) ==
    /\ commands < MaxProjectCommands
    /\ \E res \in { delete_project(projects, p, u) } : Called("delete", p, u, res)

ProjectSetDefault(p, u) ==
    /\ commands < MaxProjectCommands
    /\ \E res \in { set_default_project(projects, p, u) } :
           Called("set_default", p, u, res)

NextProjects ==
    \/ \E name \in ProjectNames, u \in Users : ProjectCreate(name, u)
    \/ \E p \in ProjectIds, u \in Users, data \in ProjectUpdates : ProjectUpdate(p, u, data)
    \/ \E p \in ProjectIds, u \in Users : ProjectDelete(p, u)
    \/ \E p \in ProjectIds, u \in Users : ProjectSetDefault(p, u)

SpecProjects == InitProjects /\ [][NextProjects]_vars

(***************************************************************************)
(* An installment forecast creation and a budget creation run concurrently *)
(*                                                                         *)
(* The Installer runs the installment branch of `forecast create` in the   *)
(* existing budget 2025-11 (commands/forecasts.py 171-224); the Creator    *)
(* runs create_budget for one of the months the new recurrence covers,     *)
(* with the steps of the two-process model above.  Every commit of the     *)
(* Installer is one step, and so is the lookup of the target budget that   *)
(* precedes it.                                                            *)
(***************************************************************************)
\* the two sessions are the two processes of the model above
Installer == CHOOSE p \in Processes : \A q \in Processes : p <= q

Creator == CHOOSE p \in Processes : p # Installer

InstallmentCount == MaxInstallments + 1

\* the months of the recurrence when the forecast is its first installment
CoveredMonths == { Month(k) : k \in 0..(InstallmentCount - 1) }

InstallRequest(k) ==
    [CreateRequest(None, BaseMonth, CHOOSE t \in Templates : TRUE,
                   Shape(FALSE, None, Some(InstallmentCount), k), TRUE)
        EXCEPT !.cat = Some("home")]

Starting(k) ==
    [at |-> "first_forecast", req |-> InstallRequest(k),
     first_inst |-> IF IsSome(k) THEN Get(k) ELSE 1,
     first_forecast |-> None, rec |-> None, i |-> 0, target |-> None,
     raised |-> FALSE]

InitInstall ==
    /\ Detached
    /\ accounts = << >>
    /\ transactions = << >>
    /\ today = Date(2025, 11, 15)
    /\ commands = 0
    /\ last = [op |-> "installments", overlapped |-> FALSE]
    /\ budgets = <<BudgetRow(BaseMonth, Project)>>
    /\ recurrences = << >>
    /\ forecasts = << >>
    /\ categories = { "home" }
    /\ \E k \in { None, Some(2) }, m \in CoveredMonths :
          pc = [p \in Processes |-> IF p = Installer THEN Starting(k) ELSE Waiting(m)]

InstallFrame ==
    UNCHANGED <<categories, accounts, transactions, today, last, commands,
                projects, remote, local>>

\* the budget the forecast is authored in
Origin == budgets[1]

\* lines 171-179: the first forecast, not yet linked
AddFirstForecast ==
    /\ pc[Installer].at = "first_forecast"
    /\ \E made \in { create_forecast(Database,
                        ForecastCreate(pc[Installer].req.description,
                                       pc[Installer].req.value, 1,
                                       pc[Installer].req.cat, pc[Installer].req.tags,
                                       None, Some(pc[Installer].first_inst))) } :
          /\ forecasts' = made.db.forecasts
          /\ pc' = [pc EXCEPT ![Installer].at = "create_recurrence",
                              ![Installer].first_forecast = Some(made.id)]
    /\ UNCHANGED <<budgets, recurrences>>
    /\ InstallFrame

\* lines 181-193: theoretical_start and create_recurrence
AddRecurrence ==
    /\ pc[Installer].at = "create_recurrence"
    /\ \E made \in { create_recurrence(Database,
                        [start |-> _month_offset(Origin.name,
                                                 0 - (pc[Installer].first_inst - 1)),
                         end |-> None,
                         installments |-> pc[Installer].req.installments,
                         base_description |-> pc[Installer].req.description,
                         value |-> pc[Installer].req.value,
                         category_id |-> pc[Installer].req.cat,
                         tags |-> pc[Installer].req.tags,
                         project_id |-> Origin.project_id]) } :
          /\ recurrences' = made.db.recurrences
          /\ pc' = [pc EXCEPT ![Installer].at = "link", ![Installer].rec = Some(made.id)]
    /\ UNCHANGED <<budgets, forecasts>>
    /\ InstallFrame

\* lines 195-197: first_forecast.recurrence_id = rec.id; await db.commit()
LinkFirstForecast ==
    /\ pc[Installer].at = "link"
    /\ forecasts' = [forecasts EXCEPT ![Get(pc[Installer].first_forecast)].recurrence_id =
                        pc[Installer].rec]
    /\ pc' = [pc EXCEPT ![Installer].at = "lookup",
                        ![Installer].i = FirstRemainingInstallment(pc[Installer].first_inst)]
    /\ UNCHANGED <<budgets, recurrences>>
    /\ InstallFrame

\* the month of installment i
InstallmentMonth == _month_offset(Origin.name, pc[Installer].i - pc[Installer].first_inst)

\* lines 200-202: the head of the loop and get_budget_by_name, which raises
\* MultipleResultsFound when two budgets carry the name
LookupBudget ==
    /\ pc[Installer].at = "lookup"
    /\ \E named \in { BudgetsNamed(Database, Origin.project_id, InstallmentMonth) } :
          pc' = IF pc[Installer].i > Get(pc[Installer].req.installments)
                THEN [pc EXCEPT ![Installer].at = "done"]
                ELSE IF Cardinality(named) > 1
                THEN [pc EXCEPT ![Installer].at = "done", ![Installer].raised = TRUE]
                ELSE IF named = {}
                THEN [pc EXCEPT ![Installer].at = "create_budget"]
                ELSE [pc EXCEPT ![Installer].at = "add_installment",
                                ![Installer].target = Some(CHOOSE b \in named : TRUE)]
    /\ UNCHANGED <<budgets, recurrences, forecasts>>
    /\ InstallFrame

\* lines 203-211: create_budget for the missing month, which commits the
\* budget and materializes into it, and the `already` check after it
CreateTargetBudget ==
    /\ pc[Installer].at = "create_budget"
    /\ \E made \in { create_budget(Database, InstallmentMonth, Origin.project_id) } :
          /\ budgets' = made.db.budgets
          /\ forecasts' = made.db.forecasts
          /\ pc' = IF made.raised
                   THEN [pc EXCEPT ![Installer].at = "done", ![Installer].raised = TRUE]
                   ELSE IF forecast_exists_for_recurrence(made.db, Get(pc[Installer].rec),
                                                          made.id)
                   THEN [pc EXCEPT ![Installer].at = "lookup", ![Installer].i = @ + 1]
                   ELSE [pc EXCEPT ![Installer].at = "add_installment",
                                   ![Installer].target = Some(made.id)]
    /\ UNCHANGED recurrences
    /\ InstallFrame

\* lines 213-221: the forecast of installment i in target_budget
AddInstallment ==
    /\ pc[Installer].at = "add_installment"
    /\ \E made \in { create_forecast(Database,
                        InstallmentRow(Get(pc[Installer].target), pc[Installer].i,
                                       Get(pc[Installer].rec), pc[Installer].req)) } :
          /\ forecasts' = made.db.forecasts
          /\ pc' = [pc EXCEPT ![Installer].at = "lookup", ![Installer].i = @ + 1]
    /\ UNCHANGED <<budgets, recurrences>>
    /\ InstallFrame

NextInstall ==
    \/ AddFirstForecast
    \/ AddRecurrence
    \/ LinkFirstForecast
    \/ LookupBudget
    \/ CreateTargetBudget
    \/ AddInstallment
    \/ InsertBudget(Creator)
    \/ QueryRecurrences(Creator)
    \/ CheckExists(Creator)
    \/ InsertForecast(Creator)

SpecInstall == InitInstall /\ [][NextInstall]_vars

(***************************************************************************)
(* Transactions and their counterparts (src/bud/services/transactions.py)  *)
(*                                                                         *)
(* A row of the transactions table is here the row of                      *)
(* src/bud/models/transaction.py: a value moved from source_account_id to  *)
(* destination_account_id, with is_counterpart and counterpart_id.  Every  *)
(* service call is one transaction of the database.  The two accounts are  *)
(* not joined to the project, so a report lists no account balance.        *)
(***************************************************************************)
\* TransactionCreate
Movement(value, description, date, source, destination) ==
    [value |-> value, description |-> description, date |-> date,
     source_account_id |-> source, destination_account_id |-> destination,
     project_id |-> Project, category_id |-> Some("home"), tags |-> <<"fixed">>]

\* one row of the table
PairRow(data, value, source, destination, is_counterpart, counterpart_id) ==
    [value |-> value, description |-> data.description, date |-> data.date,
     tags |-> data.tags, is_counterpart |-> is_counterpart,
     source_account_id |-> source, destination_account_id |-> destination,
     category_id |-> data.category_id, project_id |-> data.project_id,
     counterpart_id |-> counterpart_id]

\* create_transaction: the transaction, its counterpart, and the link back
CreateWithCounterpart(table, data) ==
    LET id == FreshId(table)
        flushed == Insert(table, id,
                          PairRow(data, data.value, data.source_account_id,
                                  data.destination_account_id, FALSE, None))
        cid == FreshId(flushed)
        both == Insert(flushed, cid,
                       PairRow(data, 0 - data.value, data.destination_account_id,
                               data.source_account_id, TRUE, Some(id)))
    IN  [table |-> [both EXCEPT ![id].counterpart_id = Some(cid)], result |-> Some(id)]

\* setattr for every field of data.model_dump(exclude_none=True)
Assigned(row, data) ==
    [row EXCEPT
        !.value = IF IsSome(data.value) THEN Get(data.value) ELSE @,
        !.description = IF IsSome(data.description) THEN Get(data.description) ELSE @,
        !.date = IF IsSome(data.date) THEN Get(data.date) ELSE @,
        !.source_account_id = IF IsSome(data.source_account_id)
                              THEN Get(data.source_account_id) ELSE @,
        !.destination_account_id = IF IsSome(data.destination_account_id)
                                   THEN Get(data.destination_account_id) ELSE @,
        !.category_id = IF IsSome(data.category_id) THEN data.category_id ELSE @,
        !.tags = IF IsSome(data.tags) THEN Get(data.tags) ELSE @]

\* Variant: the counterpart takes the new value as it is
SyncedKeepingSign(row, data) ==
    [row EXCEPT
        !.value = IF IsSome(data.value) THEN Get(data.value) ELSE @,
        !.description = IF IsSome(data.description) THEN Get(data.description) ELSE @,
        !.date = IF IsSome(data.date) THEN Get(data.date) ELSE @,
        !.destination_account_id = IF IsSome(data.source_account_id)
                                   THEN Get(data.source_account_id) ELSE @,
        !.source_account_id = IF IsSome(data.destination_account_id)
                              THEN Get(data.destination_account_id) ELSE @,
        !.category_id = IF IsSome(data.category_id) THEN data.category_id ELSE @,
        !.tags = IF IsSome(data.tags) THEN Get(data.tags) ELSE @]

\* "Sync counterpart": the fields of update_data, value negated and the
\* accounts swapped
Synced(row, data) ==
    [row EXCEPT
        !.value = IF IsSome(data.value) THEN 0 - Get(data.value) ELSE @,
        !.description = IF IsSome(data.description) THEN Get(data.description) ELSE @,
        !.date = IF IsSome(data.date) THEN Get(data.date) ELSE @,
        !.destination_account_id = IF IsSome(data.source_account_id)
                                   THEN Get(data.source_account_id) ELSE @,
        !.source_account_id = IF IsSome(data.destination_account_id)
                              THEN Get(data.destination_account_id) ELSE @,
        !.category_id = IF IsSome(data.category_id) THEN data.category_id ELSE @,
        !.tags = IF IsSome(data.tags) THEN Get(data.tags) ELSE @]

\* `if not txn or txn.is_counterpart: return`
Refused(table, id) == id \notin DOMAIN table \/ table[id].is_counterpart

\* get_transaction(db, txn.counterpart_id), when there is one
CounterpartOf(table, id) ==
    IF IsSome(table[id].counterpart_id) /\ Get(table[id].counterpart_id) \in DOMAIN table
    THEN { Get(table[id].counterpart_id) } ELSE {}

UpdateWithCounterpart(table, id, data) ==
    IF Refused(table, id) THEN [table |-> table, result |-> None]
    ELSE [table |-> [i \in DOMAIN table |->
                        IF i = id THEN Assigned(table[i], data)
                        ELSE IF i \in CounterpartOf(table, id) THEN Synced(table[i], data)
                        ELSE table[i]],
          result |-> Some(id)]

DeleteWithCounterpart(table, id) ==
    IF Refused(table, id) THEN [table |-> table, result |-> None]
    ELSE [table |-> Remove(table, {id} \cup CounterpartOf(table, id)), result |-> Some(id)]

\* TransactionUpdate: the options given
Change(value, description, date, source, destination) ==
    [value |-> value, description |-> description, date |-> date,
     source_account_id |-> source, destination_account_id |-> destination,
     category_id |-> None, tags |-> None]

Movements ==
    { Movement(v, <<"r", "e", "n">>, Date(2025, 11, 10), 1, 2) : v \in Amounts }

Changes ==
    { Change(Some(20), None, None, None, None),
      Change(None, Some(<<"e">>), None, Some(2), None),
      Change(None, None, Some(Date(2025, 12, 5)), None, Some(1)) }

\* ids a caller may name: of transactions, of counterparts, and of no row
MovementIds == 1..(2 * MaxTransactions + 1)

Primaries == { t \in DOMAIN transactions : ~transactions[t].is_counterpart }

InitPairs ==
    /\ Detached
    /\ accounts = << >>
    /\ today = Date(2025, 11, 15)
    /\ pc = << >>
    /\ recurrences = << >>
    /\ categories = { "home" }
    /\ budgets = <<BudgetRow(BaseMonth, Project)>>
    /\ forecasts = <<ForecastCreate(Some(<<"r", "e">>), 0 - 100, 1, Some("home"),
                                    <<"fixed">>, None, None)>>
    /\ transactions = << >>
    /\ last = [op |-> "none"]
    /\ commands = 0

PairsFrame ==
    UNCHANGED <<budgets, recurrences, forecasts, categories, accounts, today, pc,
                projects, remote, local>>

Served(op, id, res) ==
    /\ transactions' = res.table
    /\ last' = [op |-> op, id |-> id, result |-> res.result, before |-> transactions]
    /\ commands' = commands + 1
    /\ PairsFrame

MovementCreate(data) ==
    /\ commands < MaxCommands
    /\ Cardinality(Primaries) < MaxTransactions
    /\ \E res \in { CreateWithCounterpart(transactions, data) } :
          Served("create", Get(res.result), res)

MovementUpdate(id, data) ==
    /\ commands < MaxCommands
    /\ \E res \in { UpdateWithCounterpart(transactions, id, data) } :
          Served("update", id, res)

MovementDelete(id) ==
    /\ commands < MaxCommands
    /\ \E res \in { DeleteWithCounterpart(transactions, id) } : Served("delete", id, res)

\* `report show` for the budget
MovementReport ==
    /\ commands < MaxCommands
    /\ commands' = commands + 1
    /\ \E res \in { generate_report(1) } : last' = [op |-> "report", report |-> res]
    /\ UNCHANGED transactions
    /\ PairsFrame

NextPairs ==
    \/ \E data \in Movements : MovementCreate(data)
    \/ \E id \in MovementIds, data \in Changes : MovementUpdate(id, data)
    \/ \E id \in MovementIds : MovementDelete(id)
    \/ MovementReport

SpecPairs == InitPairs /\ [][NextPairs]_vars

(***************************************************************************)
(* Properties                                                              *)
(***************************************************************************)
\* the forecasts of budget b linked to recurrence r
LinkedIn(r, b) ==
    { f \in DOMAIN forecasts :
        forecasts[f].recurrence_id = Some(r) /\ forecasts[f].budget_id = b }

\* months counted from year 0, for stating month ranges arithmetically
MonthIndex(tok) == ParseYear(tok) * 12 + ParseMonth(tok) - 1

\* C1: after any sequence of commands, for every (recurrence_id, budget_id)
\* pair with a non-null recurrence_id at most one Forecast exists.
AtMostOneForecastPerRecurrenceAndBudget ==
    \A f \in DOMAIN forecasts, g \in DOMAIN forecasts :
        ( /\ IsSome(forecasts[f].recurrence_id)
          /\ forecasts[f].recurrence_id = forecasts[g].recurrence_id
          /\ forecasts[f].budget_id = forecasts[g].budget_id ) => f = g

\* a recurrence whose forecasts were written into two budgets by one command
RecurrenceSpreadOverBudgets ==
    /\ last.op \in { "forecast_create", "forecast_edit" }
    /\ IsSome(last.rec)
    /\ \E b \in DOMAIN budgets, c \in DOMAIN budgets :
          /\ b # c
          /\ LinkedIn(Get(last.rec), b) # {}
          /\ LinkedIn(Get(last.rec), c) # {}

RecreatedBudgetReproducesForecasts ==
    (last.op = "budget_create" /\ last.recreated /\ last.linked)
        => Content(Database, Get(last.bid)) = last.before

\* C4: right after `budget create`, the new budget holds a forecast linked to
\* recurrence r exactly when r applies to the budget's month.
NewBudgetHoldsExactlyApplicable ==
    last.op = "budget_create" =>
        LET b == Get(last.bid)
        IN  \A r \in DOMAIN recurrences :
                forecast_exists_for_recurrence(Database, r, b)
                    <=> r \in get_recurrences_for_month(Database, budgets[b].project_id,
                                                        budgets[b].name)

\* C5: the forecast that budget creation writes for an applicable recurrence
\* carries the recurrence's base_description, value, category_id and tags,
\* its id as recurrence_id, and installment = months between start and the
\* budget's month, plus one, when the recurrence has installments, else none.
MaterializedForecastCopiesTemplate ==
    last.op = "budget_create" =>
        LET b == Get(last.bid)
        IN  \A r \in get_recurrences_for_month(Database, budgets[b].project_id,
                                               budgets[b].name) :
                \E f \in list_forecasts(Database, b) :
                    forecasts[f] =
                        ForecastCreate(recurrences[r].base_description, recurrences[r].value,
                            b, recurrences[r].category_id, recurrences[r].tags, Some(r),
                            IF IsSome(recurrences[r].installments)
                            THEN Some(_months_between(recurrences[r].start, budgets[b].name) + 1)
                            ELSE None)

\* C6: after any sequence of commands, every existing budget whose month a
\* recurrence applies to holds exactly one forecast linked to that recurrence.
ExactlyOneForecastPerApplicableBudget ==
    \A b \in DOMAIN budgets :
        \A r \in get_recurrences_for_month(Database, budgets[b].project_id, budgets[b].name) :
            Cardinality(LinkedIn(r, b)) = 1

\* C7 as stated: a recurrence with installments = N and start = S, whatever
\* its end, applies to month m exactly when S <= m <= offset(S, N-1), and the
\* installment number there is monthsBetween(S, m) + 1, within 1..N.
InstallmentsDecideExpansion ==
    (last.op = "expand" /\ IsSome(recurrences[1].installments)) =>
        LET S == MonthIndex(recurrences[1].start)
            N == Get(recurrences[1].installments)
            m == MonthIndex(last.month)
            inRange == S <= m /\ m <= S + N - 1
        IN  /\ (last.outcome = "applies") <=> inRange
            /\ inRange => ( /\ last.installment = Some(m - S + 1)
                            /\ Get(last.installment) \in 1..N )

\* C7 for N other than 0: a recurrence with installments = N # 0 and start = S,
\* whatever its end, applies to month m exactly when S <= m <= offset(S, N-1),
\* and the installment number there is monthsBetween(S, m) + 1, within 1..N.
\* (Stored installments of 0 count as not set: the end decides.)
NonZeroInstallmentsDecideExpansion ==
    (last.op = "expand" /\ IsSome(recurrences[1].installments)
                        /\ Get(recurrences[1].installments) # 0) =>
        LET S == MonthIndex(recurrences[1].start)
            N == Get(recurrences[1].installments)
            m == MonthIndex(last.month)
            inRange == S <= m /\ m <= S + N - 1
        IN  /\ (last.outcome = "applies") <=> inRange
            /\ inRange => ( /\ last.installment = Some(m - S + 1)
                            /\ Get(last.installment) \in 1..N )

\* the last installment month of a recurrence whose end lies before it
LastInstallmentPastEnd ==
    /\ last.op = "expand"
    /\ last.outcome = "applies"
    /\ recurrences[1].installments = Some(MaxInstallments)
    /\ last.installment = Some(MaxInstallments)
    /\ IsSome(recurrences[1].end)
    /\ MonthIndex(Get(recurrences[1].end)) < MonthIndex(last.month)

\* C8: a recurrence without installments and with start S applies to month m
\* exactly when S <= m <= E if it has end E, and to every m >= S if it has none.
EndDecidesOpenExpansion ==
    (last.op = "expand" /\ recurrences[1].installments = None) =>
        LET S == MonthIndex(recurrences[1].start)
            m == MonthIndex(last.month)
        IN  (last.outcome = "applies")
                <=> ( /\ S <= m
                      /\ \/ recurrences[1].end = None
                         \/ m <= MonthIndex(Get(recurrences[1].end)) )

\* an open recurrence queried for exactly its end month, later than its start
OpenRecurrenceAtItsEnd ==
    /\ last.op = "expand"
    /\ last.outcome = "applies"
    /\ recurrences[1].installments = None
    /\ recurrences[1].end = Some(last.month)
    /\ recurrences[1].start # last.month

\* What C9 promises of the tables after `forecast create --installments N
\* [--current-installment k]` in month M.
InstallmentBudgetsFilled ==
    LET N == Get(last.installments)
        k == IF IsSome(last.current_installment) THEN Get(last.current_installment) ELSE 1
        M == budgets[Get(last.bid)].name
        r == Get(last.rec)
    IN  /\ recurrences[r].start = _month_offset(M, 0 - (k - 1))
        /\ \A j \in 0..(N - k) :
              \E b \in DOMAIN budgets :
                  /\ budgets[b].name = _month_offset(M, j)
                  /\ Cardinality(LinkedIn(r, b)) = 1
                  /\ \A f \in LinkedIn(r, b) : forecasts[f].installment = Some(k + j)

\* C9: `forecast create` in month M with installments = N and current
\* installment k creates exactly one recurrence, starting at offset(M, -(k-1)),
\* and afterwards each month M .. offset(M, N-k) has a budget holding exactly
\* one forecast of that recurrence, with installments k .. N in month order.
InstallmentCreateFillsRemainingMonths ==
    [][ (last'.op = "forecast_create" /\ IsSome(last'.rec) /\ Truthy(last'.installments))
          => ( /\ Cardinality(DOMAIN recurrences') = Cardinality(DOMAIN recurrences) + 1
               /\ InstallmentBudgetsFilled' ) ]_vars

\* C10: a `forecast create` rejected for its --current-installment leaves
\* budgets, categories, recurrences and forecasts as they were.
RejectedCreatePersistsNothing ==
    [][ (last'.op = "forecast_create" /\ last'.outcome = "rejected")
          => ( /\ budgets' = budgets
               /\ categories' = categories
               /\ recurrences' = recurrences
               /\ forecasts' = forecasts ) ]_vars

\* the forecast declares the criterion: a category, a non-empty description,
\* a non-empty list of tags
DeclaresCategory(f) == IsSome(f.category_id)

DeclaresDescription(f) == IsSome(f.description) /\ Len(Get(f.description)) > 0

DeclaresTags(f) == Len(f.tags) > 0

\* every criterion the forecast declares holds for the transaction
EveryDeclaredCriterionHolds(f, t) ==
    /\ DeclaresCategory(f) => t.category_id = f.category_id
    /\ DeclaresDescription(f) =>
          \E k \in 0..Len(t.description) :
              /\ k + Len(Get(f.description)) <= Len(t.description)
              /\ \A i \in 1..Len(Get(f.description)) :
                    LowerChar(Get(f.description)[i]) = LowerChar(t.description[k + i])
    /\ DeclaresTags(f) =>
          { f.tags[i] : i \in 1..Len(f.tags) } \subseteq { t.tags[j] : j \in 1..Len(t.tags) }

\* the transactions of the budget's project dated inside the budget's range
InsideRange(b) ==
    { t \in DOMAIN transactions :
        /\ transactions[t].project_id = budgets[b].project_id
        /\ budgets[b].start_date <= transactions[t].date
        /\ transactions[t].date <= budgets[b].end_date }

\* C11: in a report, the actual value of a forecast is the sum of exactly
\* those transactions inside the budget's date range for which the forecast
\* declares at least one criterion and every declared criterion holds
\* (category equal, description a case-insensitive substring, every forecast
\* tag among the transaction's tags); a forecast with no criteria has
\* actual = 0 whatever the transactions.
ActualCountsExactlyMatchingTransactions ==
    last.op = "report" =>
        \A f \in DOMAIN last.report.forecasts :
            LET fc == forecasts[f]
                declares == DeclaresCategory(fc) \/ DeclaresDescription(fc)
                              \/ DeclaresTags(fc)
            IN  /\ last.report.forecasts[f].actual_value =
                      SumValues({ t \in InsideRange(last.report.budget_id) :
                                    declares /\ EveryDeclaredCriterionHolds(fc, transactions[t]) })
                /\ ~declares => last.report.forecasts[f].actual_value = 0

\* A report of budget 1 whose forecast declares description and tags, with
\* one transaction in range that meets both (in another letter case and with
\* an extra tag) and is counted, and one in range that lacks a tag and is not.
MatchingTransactionCounted ==
    /\ last.op = "report"
    /\ last.report.budget_id = 1
    /\ forecasts[1].description = Some(<<"R", "e">>)
    /\ forecasts[1].tags = <<"a", "b">>
    /\ DOMAIN transactions = {1, 2}
    /\ last.report.forecasts[1].actual_value = 1

\* the budgets the forward walk for target T is said to visit: those of T's
\* project that have not ended before today and are not later than T
CurrentOrFutureUpTo(T) ==
    { b \in DOMAIN budgets :
        /\ budgets[b].project_id = budgets[T].project_id
        /\ budgets[b].end_date >= today
        /\ StrLE(budgets[b].name, budgets[T].name) }

\* forecast.value - actual summed over the forecasts fs, each actual matched
\* against the transactions inside the range of the forecast's own budget
RECURSIVE SumOwnRemaining(_)
SumOwnRemaining(fs) ==
    IF fs = {} THEN 0
    ELSE LET f == CHOOSE x \in fs : TRUE
         IN  (forecasts[f].value
                - forecast_actual(forecasts[f], InsideRange(forecasts[f].budget_id)))
               + SumOwnRemaining(fs \ {f})

\* C12: in the report of a budget T that ends after today,
\* accumulated_remaining is the sum of forecast.value - actual over every
\* forecast of every budget of T's project that is current or future and not
\* later than T, each actual matched against the transactions of that
\* budget's own range; budgets that ended before today and budgets after T
\* contribute nothing.
AccumulatedRemainingSumsVisitedBudgets ==
    (last.op = "report" /\ budgets[last.report.budget_id].end_date > today) =>
        last.report.accumulated_remaining =
            Some(SumOwnRemaining(
                    { f \in DOMAIN forecasts :
                        forecasts[f].budget_id \in CurrentOrFutureUpTo(last.report.budget_id) }))

\* The report of the current budget 2025-12 on 2025-12-01: the budget of
\* 2025-11 has ended, the budget of 2026-01 is later, and a December
\* transaction of 8 matches the forecast of -30.
WalkSkipsEndedAndLaterBudgets ==
    /\ last.op = "report"
    /\ last.report.budget_id = 2
    /\ today = Date(2025, 12, 1)
    /\ 4 \in DOMAIN transactions
    /\ forecasts[1].value # 0
    /\ last.report.accumulated_remaining = Some(0 - 38)

\* C13: in the report of budget B, each account's calculated_balance is the
\* account's initial_balance plus the sum of the values of all of that
\* account's transactions dated on or before B.end_date, and its difference
\* is calculated_balance minus the stored current_balance.
CalculatedBalanceCoversAccountTransactions ==
    last.op = "report" =>
        \A a \in DOMAIN last.report.account_balances :
            LET entry == last.report.account_balances[a]
                upToEnd == { t \in DOMAIN transactions :
                               /\ transactions[t].account_id = a
                               /\ transactions[t].date
                                     <= budgets[last.report.budget_id].end_date }
            IN  /\ entry.calculated_balance
                      = accounts[a].initial_balance + SumValues(upToEnd)
                /\ entry.difference
                      = entry.calculated_balance - accounts[a].current_balance

RaisingInvocationPersistsNothing ==
    [][ (last'.op \in { "budget_create", "forecast_create" } /\ last'.outcome = "raised")
          => ( /\ budgets' = budgets
               /\ recurrences' = recurrences
               /\ forecasts' = forecasts ) ]_vars

\* C16: after any sequence of budget create, rename and delete operations,
\* no two Budgets of the same project have the same name.
BudgetNamesUniquePerProject ==
    \A a \in DOMAIN budgets, b \in DOMAIN budgets :
        (a # b /\ budgets[a].project_id = budgets[b].project_id)
            => budgets[a].name # budgets[b].name

\* C17: after a Recurrence r is deleted no Forecast references r: with
\* cascade every Forecast that was linked to r is gone; without cascade every
\* such Forecast is still there with recurrence_id null and its other fields
\* unchanged; the Forecasts not linked to r are untouched in both modes.
RecurrenceDeleteCascadesOrDetaches ==
    [][ last'.op = "recurrence_delete" =>
          LET r == Get(last'.rec)
          IN  /\ r \notin DOMAIN recurrences'
              /\ \A f \in DOMAIN forecasts' : forecasts'[f].recurrence_id # Some(r)
              /\ DOMAIN forecasts' \subseteq DOMAIN forecasts
              /\ \A f \in DOMAIN forecasts :
                    IF forecasts[f].recurrence_id = Some(r)
                    THEN IF last'.cascade
                         THEN f \notin DOMAIN forecasts'
                         ELSE /\ f \in DOMAIN forecasts'
                              /\ forecasts'[f] = [forecasts[f] EXCEPT !.recurrence_id = None]
                    ELSE /\ f \in DOMAIN forecasts'
                         /\ forecasts'[f] = forecasts[f] ]_vars

\* A recurrence with a linked forecast was deleted without cascade next to a
\* forecast that was never linked to it: both forecasts are in the table.
RecurrenceDetachedFromForecast ==
    /\ last.op = "recurrence_delete"
    /\ ~last.cascade
    /\ last.before # {}
    /\ last.before \subseteq DOMAIN forecasts
    /\ DOMAIN forecasts \ last.before # {}

\* C18: after the propagate operation on Recurrence r, every Forecast linked
\* to r has description, value, category and tags equal to r's template
\* values (base_description, value, category_id, tags); the Forecasts not
\* linked to r, and the budget and installment number of the linked ones,
\* are unchanged.
PropagatePushesTemplateOntoLinked ==
    [][ (last'.op = "recurrence_edit" /\ last'.outcome = "propagated") =>
          LET r == Get(last'.rec)
              tpl == recurrences'[r]
          IN  /\ DOMAIN forecasts' = DOMAIN forecasts
              /\ \A f \in DOMAIN forecasts :
                    IF forecasts[f].recurrence_id = Some(r)
                    THEN /\ forecasts'[f].description = tpl.base_description
                         /\ forecasts'[f].value = tpl.value
                         /\ forecasts'[f].category_id = tpl.category_id
                         /\ forecasts'[f].tags = tpl.tags
                         /\ forecasts'[f].recurrence_id = Some(r)
                         /\ forecasts'[f].budget_id = forecasts[f].budget_id
                         /\ forecasts'[f].installment = forecasts[f].installment
                    ELSE forecasts'[f] = forecasts[f] ]_vars

\* A propagate has renamed a linked forecast, next to a forecast that is not
\* linked to the recurrence and kept its description.
PropagateRenamedLinkedForecast ==
    /\ last.op = "recurrence_edit"
    /\ last.outcome = "propagated"
    /\ \E f \in DOMAIN forecasts :
          /\ forecasts[f].recurrence_id = last.rec
          /\ forecasts[f].description = Some("lease")
    /\ \E f \in DOMAIN forecasts :
          /\ forecasts[f].recurrence_id # last.rec
          /\ forecasts[f].description = Some("rent")

\* C19: editing a plain Forecast of Budget B into a recurrent one creates
\* exactly one Recurrence, with start = B.name, that the edited Forecast is
\* linked to; afterwards every existing Budget of the project whose month the
\* Recurrence covers holds exactly one Forecast linked to it, and the Budgets
\* of months before B or after the given end hold none.
EditIntoRecurrentBackfillsCoveredBudgets ==
    [][ (last'.op = "forecast_edit" /\ last'.outcome = "now_recurrent") =>
          LET r == Get(last'.rec)
              covers(m) == /\ StrLE(recurrences'[r].start, m)
                           /\ \/ recurrences'[r].end = None
                              \/ StrLE(m, Get(recurrences'[r].end))
          IN  /\ r \notin DOMAIN recurrences
              /\ DOMAIN recurrences' = DOMAIN recurrences \cup {r}
              /\ \E f \in DOMAIN forecasts :
                    /\ forecasts[f].recurrence_id = None
                    /\ forecasts'[f].recurrence_id = Some(r)
                    /\ recurrences'[r].start = budgets[forecasts[f].budget_id].name
              /\ \A b \in DOMAIN budgets' :
                    Cardinality({ f \in DOMAIN forecasts' :
                                    /\ forecasts'[f].recurrence_id = Some(r)
                                    /\ forecasts'[f].budget_id = b })
                      = IF covers(budgets'[b].name) THEN 1 ELSE 0 ]_vars

\* some (recurrence, budget) pair has two forecasts
DuplicateForecast ==
    \E f \in DOMAIN forecasts, g \in DOMAIN forecasts :
        /\ f # g
        /\ IsSome(forecasts[f].recurrence_id)
        /\ forecasts[f].recurrence_id = forecasts[g].recurrence_id
        /\ forecasts[f].budget_id = forecasts[g].budget_id

BothDone == \A p \in Processes : pc[p].at = "done"

YearMonthNumber(a, n) == ParseYear(a) * 12 + ParseMonth(a) + n

IsDigit(c) == c \in 0..9

\* a zero-padded YYYY-MM token whose month is in 01..12
IsMonthToken(tok) ==
    /\ Len(tok) = 7
    /\ \A i \in {1, 2, 3, 4, 6, 7} : IsDigit(tok[i])
    /\ tok[5] = Dash
    /\ tok[6] * 10 + tok[7] \in 1..12

\* what the claim states of one application of the offset
OffsetLawsHold ==
    /\ IsMonthToken(last.token)
    /\ last.back = Returned(last.n)
    /\ (StrLess(last.a, last.token) <=> last.n > 0)
    /\ (StrLess(last.token, last.a) <=> last.n < 0)

\* the year the offset lands in
OffsetYear == (YearMonthNumber(last.a, last.n) - 1) \div 12

\* C21 as stated: for every valid month token a and every integer n,
\* offset(a, n) is a zero-padded YYYY-MM token with month in 01..12,
\* monthsBetween(a, offset(a, n)) = n, and the string order of the tokens
\* agrees with the numeric order of year * 12 + month.
OffsetLawsForEveryInteger ==
    last.op = "offset" => OffsetLawsHold

\* C21 amended: the same laws for every valid month token a and every integer
\* n whose offset lands in a year from 0000 to 9999.
OffsetLawsWithinFourDigitYears ==
    (last.op = "offset" /\ OffsetYear \in 0..9999) => OffsetLawsHold

\* C21 witness: a negative offset that borrows from the year.
OffsetBorrowedAcrossYears ==
    /\ last.op = "offset"
    /\ last.n < 0
    /\ OffsetYear \in 0..9999
    /\ ParseYear(last.token) < ParseYear(last.a)
    /\ last.back = Returned(last.n)

\* the step starts a command of the given kind on machine c without --force
StartsUnforced(op, c) ==
    /\ pc[c] = AtRest
    /\ commands' = commands + 1
    /\ last'.op = op /\ last'.client = c /\ ~last'.force

\* C22: a push without --force is refused when the remote version is greater
\* than the local one, a pull without --force is refused when the local
\* version is greater than the remote one, and a refused command leaves the
\* remote database, the remote metadata, the local database and the local
\* metadata unchanged.
RefusedSyncLeavesBothSidesUnchanged ==
    [][ /\ \A c \in Clients :
              /\ (StartsUnforced("push", c) /\ RemoteVersion > LocalVersion(c))
                     => last'.outcome = "refused"
              /\ (StartsUnforced("pull", c) /\ LocalVersion(c) > RemoteVersion)
                     => last'.outcome = "refused"
        /\ last'.outcome = "refused" => (remote' = remote /\ local' = local)
      ]_vars

\* C22 witness: both refusals have happened: a push was refused and left a
\* newer remote in place, and a pull was refused on a machine ahead of the remote.
PullRefusedOnNewerLocal ==
    /\ last.op = "pull" /\ last.outcome = "refused" /\ ~last.force
    /\ LocalVersion(last.client) > RemoteVersion
    /\ remote.meta # None

\* C30: every successful push publishes a version that is strictly greater
\* than every version previously published to the remote, also when the
\* pushes of two machines interleave between reading the remote metadata and
\* uploading the new one.
PublishedVersionsStrictlyIncrease ==
    \A i, j \in 1..Len(last.published) :
        i < j => last.published[i] < last.published[j]

DefaultProjects(table, user_id) ==
    { i \in DOMAIN table : table[i].user_id = user_id /\ table[i].is_default }

\* C23: after any sequence of project create, update, set-default and delete
\* operations at most one project (of a user) is marked default, and right
\* after set_default_project(p) succeeds exactly one project is default and
\* it is p.
AtMostOneDefaultProject ==
    /\ \A u \in Users : Cardinality(DefaultProjects(projects, u)) <= 1
    /\ (last.op = "set_default" /\ IsSome(last.result))
           => DefaultProjects(projects, last.user_id) = {last.project_id}

Applies(r, month) == StartedBy(r, r.project_id, month) /\ AppliesAfterStart(r, month)

\* C25: every Forecast linked to a Recurrence r lives in a Budget whose month
\* m satisfies applies(r, m), and if r is installment-based the Forecast's
\* installment number lies in 1..r.installments.
LinkedForecastsLiveInAppliedMonths ==
    \A f \in DOMAIN forecasts :
        IsSome(forecasts[f].recurrence_id) =>
            LET r == recurrences[Get(forecasts[f].recurrence_id)]
                m == budgets[forecasts[f].budget_id].name
            IN  /\ Applies(r, m)
                /\ HasInstallments(r) =>
                       /\ IsSome(forecasts[f].installment)
                       /\ Get(forecasts[f].installment) \in 1..Get(r.installments)

\* C26: for every Forecast linked to an installment-based Recurrence, the
\* stored installment number equals monthsBetween(recurrence.start,
\* budget.name) + 1, also after a Budget is renamed and after the Recurrence's
\* start or installments are edited.
StoredInstallmentMatchesMonth ==
    \A f \in DOMAIN forecasts :
        IsSome(forecasts[f].recurrence_id) =>
            LET r == recurrences[Get(forecasts[f].recurrence_id)]
            IN  HasInstallments(r) =>
                    forecasts[f].installment =
                        Some(get_installment_number(r, budgets[forecasts[f].budget_id].name))

PrimaryPeriod ==
    { t \in PeriodTransactions(Project, budgets[1].start_date, budgets[1].end_date) :
        ~transactions[t].is_counterpart }

\* C28: the automatically generated counterpart of a transaction never
\* contributes to a report: a forecast's actual value, total_earnings and
\* total_expenses are computed from the primary transactions only.
ReportCountsPrimariesOnly ==
    last.op = "report" =>
        /\ last.report.forecasts[1].actual_value = forecast_actual(forecasts[1], PrimaryPeriod)
        /\ last.report.total_earnings = total_earnings(PrimaryPeriod)
        /\ last.report.total_expenses = total_expenses(PrimaryPeriod)

\* the counterparts that name primary t
CounterpartsNaming(t) ==
    { c \in DOMAIN transactions :
        transactions[c].is_counterpart /\ transactions[c].counterpart_id = Some(t) }

Mirrors(c, t) ==
    /\ transactions[t].counterpart_id = Some(c)
    /\ transactions[c].value = 0 - transactions[t].value
    /\ transactions[c].source_account_id = transactions[t].destination_account_id
    /\ transactions[c].destination_account_id = transactions[t].source_account_id
    /\ transactions[c].description = transactions[t].description
    /\ transactions[c].date = transactions[t].date
    /\ transactions[c].category_id = transactions[t].category_id
    /\ transactions[c].tags = transactions[t].tags

\* C29: after any sequence of create_transaction, update_transaction and
\* delete_transaction calls, refused calls on a counterpart's id included,
\* every primary transaction has exactly one counterpart, the two reference
\* each other, the counterpart has the negated value, the swapped accounts
\* and the same description, date, category and tags, and no counterpart
\* exists without its primary.
EveryPrimaryHasItsMirror ==
    /\ \A t \in Primaries :
          /\ Cardinality(CounterpartsNaming(t)) = 1
          /\ \A c \in CounterpartsNaming(t) : Mirrors(c, t)
    /\ \A c \in DOMAIN transactions \ Primaries :
          /\ IsSome(transactions[c].counterpart_id)
          /\ Get(transactions[c].counterpart_id) \in Primaries
    /\ (last.op \in {"update", "delete"} /\ last.id \in DOMAIN last.before
          /\ last.before[last.id].is_counterpart)
           => (last.result = None /\ transactions = last.before)

\* C29 witness: a call on a counterpart's id was refused, on a table where a
\* transaction had been updated to a new value and new accounts.
CounterpartCallRefusedAfterUpdate ==
    /\ last.op \in {"update", "delete"}
    /\ last.result = None
    /\ last.id \in DOMAIN transactions
    /\ transactions[last.id].is_counterpart
    /\ \E t \in Primaries : transactions[t].source_account_id = 2

====
